---- MODULE Spec2Model ----
(***************************************************************************)
(* The macro execution engine of input-remapper                            *)
(* (src/inputremapper/injection/macros/macro.py) as a state machine.       *)
(*                                                                         *)
(* A macro tree is built by the add_* builder methods, then run by asyncio *)
(* tasks on one cooperative event loop.  Between two suspension points a   *)
(* task holds the loop (cpu); trigger edges, notifications, cancellations  *)
(* and timers are delivered only while no task holds it.                   *)
(*                                                                         *)
(* asyncio.CancelledError is a BaseException (Python >= 3.8, the           *)
(* interpreter this code base targets): `except Exception` in Macro.run    *)
(* does not catch it.                                                      *)
(***************************************************************************)
EXTENDS Integers, Sequences, FiniteSets, TLC

\* ------------------------------------------------------------------------
\* Bounds of the model
\* ------------------------------------------------------------------------
\* Macro objects that exist (root is 1); scripts use at most three.
NMacros == 3
\* asyncio tasks that call root.run(handler).
NRunners == 2
\* Longest sequence of handler emissions that is recorded.
MaxLog == 4
\* Handler write failures that may happen in one behaviour.
MaxFails == 1
\* Largest integer that the decimal parser of int("...") recognises.
MaxNum == 12

\* ------------------------------------------------------------------------
\* evdev constants (macro.py line 42, utils PRESS / PRESS_NEGATIVE line 47)
\* ------------------------------------------------------------------------
EV_KEY == 1
EV_REL == 2
REL_X == 0
REL_Y == 1
REL_HWHEEL == 6
REL_WHEEL == 8
PRESS == 1
PRESS_NEGATIVE == -1
RELEASE == 0
KEY_A == 30
KEY_B == 48
KEY_LEFTSHIFT == 42

MacroIds == 1..NMacros
Runners == 1..NRunners

\* ------------------------------------------------------------------------
\* Values: Python objects that occur as macro arguments
\* ------------------------------------------------------------------------
Val(k, n, s) == [k |-> k, n |-> n, s |-> s]
IntV(n) == Val("int", n, "")
FloatV(n) == Val("float", n, "")
StrV(s) == Val("str", 0, s)
VarV(name) == Val("var", 0, name)
MacV(id) == Val("macro", id, "")
NoneV == Val("none", 0, "")
\* Marks a raised exception where a value was expected.
ErrV == Val("err", 0, "")

IsErr(v) == v.k = "err"

\* An argument as the handler receives it: the number of an int, the object
\* itself (None, a str, a Variable) otherwise.
PyArg(v) == IF v.k = "int" THEN v.n ELSE v

\* system_mapping.get(symbol): symbol -> code, None when unknown
SystemMapping == [s \in {"KEY_A", "KEY_B", "KEY_LEFTSHIFT"} |->
    CASE s = "KEY_A" -> KEY_A
      [] s = "KEY_B" -> KEY_B
      [] OTHER -> KEY_LEFTSHIFT]

system_mapping_get(symbol) ==
    IF symbol \in DOMAIN SystemMapping THEN IntV(SystemMapping[symbol]) ELSE NoneV

\* evdev.ecodes[name]: KeyError (ErrV) when the name is unknown
Ecodes == [s \in {"EV_KEY", "EV_REL", "KEY_A", "KEY_B", "REL_X", "REL_WHEEL"} |->
    CASE s = "EV_KEY" -> EV_KEY
      [] s = "EV_REL" -> EV_REL
      [] s = "KEY_A" -> KEY_A
      [] s = "KEY_B" -> KEY_B
      [] s = "REL_X" -> REL_X
      [] OTHER -> REL_WHEEL]

ecodes_get(name) ==
    IF name \in DOMAIN Ecodes THEN IntV(Ecodes[name]) ELSE ErrV

\* str.upper() / str.lower() on the strings that occur
Upper(s) ==
    CASE s = "ev_key" -> "EV_KEY"
      [] s = "ev_rel" -> "EV_REL"
      [] s = "key_a" -> "KEY_A"
      [] OTHER -> s

Lower(s) ==
    CASE s = "UP" -> "up"
      [] s = "Down" -> "down"
      [] OTHER -> s

Digit == <<"0", "1", "2", "3", "4", "5", "6", "7", "8", "9">>

RECURSIVE NatToStr(_)
NatToStr(n) ==
    IF n < 10 THEN Digit[n + 1] ELSE NatToStr(n \div 10) \o Digit[(n % 10) + 1]

\* str(n) of an int
IntToStr(n) == IF n < 0 THEN "-" \o NatToStr(0 - n) ELSE NatToStr(n)

\* int("..."): the decimal numerals up to MaxNum parse, anything else is a
\* ValueError
ParseInt(s) ==
    IF \E n \in (0 - MaxNum)..MaxNum : IntToStr(n) = s
    THEN IntV(CHOOSE n \in (0 - MaxNum)..MaxNum : IntToStr(n) = s)
    ELSE ErrV

\* str(value)
PyStr(v) ==
    CASE v.k = "int" -> IntToStr(v.n)
      [] v.k = "float" -> IntToStr(v.n) \o ".0"
      [] v.k = "str" -> v.s
      [] v.k = "var" -> "<Variable \"" \o v.s \o "\">"
      [] v.k = "macro" -> "<Macro>"
      [] OTHER -> "None"

\* allowed_type(value): the constructor call that _type_check tries first
Construct(ty, v) ==
    CASE ty = "int" ->
            (CASE v.k = "int" -> v
               [] v.k = "float" -> IntV(v.n)
               [] v.k = "str" -> ParseInt(v.s)
               [] OTHER -> ErrV)
      [] ty = "float" ->
            (CASE v.k = "int" -> FloatV(v.n)
               [] v.k = "float" -> v
               [] v.k = "str" ->
                    (IF IsErr(ParseInt(v.s)) THEN ErrV ELSE FloatV(ParseInt(v.s).n))
               [] OTHER -> ErrV)
      [] ty = "str" -> StrV(PyStr(v))
      \* Macro(value) lacks the context argument: TypeError
      [] OTHER -> ErrV

IsInstance(v, ty) ==
    \/ ty = "int" /\ v.k = "int"
    \/ ty = "float" /\ v.k = "float"
    \/ ty = "str" /\ v.k = "str"
    \/ ty = "Macro" /\ v.k = "macro"

RECURSIVE TypeCheckFrom(_, _, _)
TypeCheckFrom(v, allowed, i) ==
    IF i > Len(allowed) THEN ErrV
    ELSE IF allowed[i] = "None"
         THEN (IF v.k = "none" THEN v ELSE TypeCheckFrom(v, allowed, i + 1))
    ELSE IF ~IsErr(Construct(allowed[i], v)) THEN Construct(allowed[i], v)
    ELSE IF IsInstance(v, allowed[i]) THEN v
    ELSE TypeCheckFrom(v, allowed, i + 1)

\* _type_check(value, allowed_types): the checked value, ErrV for TypeError
type_check(v, allowed) ==
    IF v.k = "var" THEN v ELSE TypeCheckFrom(v, allowed, 1)

\* _type_check_keyname(keyname): the code, ErrV for KeyError
type_check_keyname(keyname) ==
    IF keyname.k = "var" THEN keyname
    ELSE IF system_mapping_get(PyStr(keyname)).k = "none" THEN ErrV
    ELSE system_mapping_get(PyStr(keyname))

\* The character classes [A-Za-z_] and [A-Za-z_0-9] of line 132
NameStartChars == "ABCDEFGHIJKLMNOPQRSTUVWXYZabcdefghijklmnopqrstuvwxyz_"
NameChars == NameStartChars \o "0123456789"

CharIn(c, chars) == \E i \in 1..Len(chars) : SubSeq(chars, i, i) = c

\* re.match(r"^[A-Za-z_][A-Za-z_0-9]*$", s); $ also matches before a newline
\* that ends the string
MatchesName(s) ==
    LET body == IF Len(s) > 0 /\ SubSeq(s, Len(s), Len(s)) = "\n"
                THEN SubSeq(s, 1, Len(s) - 1) ELSE s
    IN  /\ Len(body) > 0
        /\ CharIn(SubSeq(body, 1, 1), NameStartChars)
        /\ \A i \in 2..Len(body) : CharIn(SubSeq(body, i, i), NameChars)

\* _type_check_variablename(name): TRUE when legit, FALSE for SyntaxError
type_check_variablename(name) == name.k = "str" /\ MatchesName(name.s)

\* ------------------------------------------------------------------------
\* Macro objects
\* ------------------------------------------------------------------------
\* An input event identity (type, code); NoEvent stands for None.
Event(type, code) == [type |-> type, code |-> code]
NoEvent == Event(-1, -1)

\* Macro.__init__
NewMacro ==
    [tasks |-> <<>>,
     child_macros |-> <<>>,
     capabilities |-> {},
     running |-> FALSE,
     trigger_release |-> TRUE,
     trigger_press |-> FALSE,
     keystroke_sleep_ms |-> NoneV,
     new_event_arrived |-> FALSE,
     newest_event |-> NoEvent,
     newest_action |-> NoneV]

\* One compiled task of Macro.tasks: the closure's kind and captured values.
Task(op, a, b, c, d) == [op |-> op, a |-> a, b |-> b, c |-> c, d |-> d]

\* What a builder call returns: ok = FALSE when it raised; ms is the store of
\* macro objects as the call left it.
Built(ms) == [ok |-> TRUE, ms |-> ms]
Raised(ms) == [ok |-> FALSE, ms |-> ms]

AddCapability(ms, m, type, code) ==
    [ms EXCEPT ![m].capabilities = @ \cup {<<type, code>>}]

AppendTask(ms, m, task) == [ms EXCEPT ![m].tasks = Append(@, task)]

AppendChild(ms, m, child) ==
    [ms EXCEPT ![m].child_macros = Append(@, child.n)]

AppendIfMacro(ms, m, child) ==
    IF child.k = "macro" THEN AppendChild(ms, m, child) ELSE ms

\* Macro.add_mouse_capabilities
add_mouse_capabilities(ms, m) ==
    AddCapability(
        AddCapability(
            AddCapability(
                AddCapability(ms, m, IntV(EV_REL), IntV(REL_X)),
                m, IntV(EV_REL), IntV(REL_Y)),
            m, IntV(EV_REL), IntV(REL_WHEEL)),
        m, IntV(EV_REL), IntV(REL_HWHEEL))

\* Macro.add_hold
add_hold(ms, m, macro) ==
    IF IsErr(type_check(macro, <<"Macro", "str", "None">>)) THEN Raised(ms)
    ELSE IF macro.k = "none"
    THEN Built(AppendTask(ms, m, Task("hold", NoneV, NoneV, NoneV, NoneV)))
    ELSE IF macro.k # "macro"
    THEN (IF IsErr(type_check_keyname(macro)) THEN Raised(ms)
          ELSE Built(AppendTask(
                   AddCapability(ms, m, IntV(EV_KEY), type_check_keyname(macro)),
                   m, Task("hold_key", type_check_keyname(macro), NoneV, NoneV, NoneV))))
    ELSE Built(AppendChild(
             AppendTask(ms, m, Task("hold_macro", NoneV, macro, NoneV, NoneV)),
             m, macro))

\* Variant for C31: the child is appended before the modifier is looked up.
add_modify_child_first(ms, m, modifier, macro) ==
    IF IsErr(type_check(macro, <<"Macro">>)) THEN Raised(ms)
    ELSE IF system_mapping_get(PyStr(modifier)).k = "none"
    THEN Raised(AppendChild(ms, m, macro))
    ELSE Built(AppendTask(
             AppendChild(
                 AddCapability(ms, m, IntV(EV_KEY), system_mapping_get(PyStr(modifier))),
                 m, macro),
             m, Task("modify", system_mapping_get(PyStr(modifier)), macro, NoneV, NoneV)))

\* Macro.add_modify
add_modify(ms, m, modifier, macro) ==
    IF IsErr(type_check(macro, <<"Macro">>)) THEN Raised(ms)
    ELSE IF system_mapping_get(PyStr(modifier)).k = "none" THEN Raised(ms)
    ELSE Built(AppendTask(
             AppendChild(
                 AddCapability(ms, m, IntV(EV_KEY), system_mapping_get(PyStr(modifier))),
                 m, macro),
             m, Task("modify", system_mapping_get(PyStr(modifier)), macro, NoneV, NoneV)))

\* Macro.add_repeat
add_repeat(ms, m, repeats, macro) ==
    IF IsErr(type_check(repeats, <<"int">>)) THEN Raised(ms)
    ELSE IF IsErr(type_check(macro, <<"Macro">>)) THEN Raised(ms)
    ELSE Built(AppendChild(
             AppendTask(ms, m,
                 Task("repeat", type_check(repeats, <<"int">>), macro, NoneV, NoneV)),
             m, macro))

\* Macro.add_key
add_key(ms, m, symbol) ==
    IF IsErr(type_check_keyname(symbol)) THEN Raised(ms)
    ELSE Built(AppendTask(
             AddCapability(ms, m, IntV(EV_KEY), system_mapping_get(PyStr(symbol))),
             m, Task("key", system_mapping_get(PyStr(symbol)), NoneV, NoneV, NoneV)))

\* ecodes[x.upper()] when x is a str, x otherwise
EcodeOf(x) == IF x.k = "str" THEN ecodes_get(Upper(x.s)) ELSE x

\* Macro.add_event: two tasks are appended, the emission and the pause
add_event(ms, m, type_, code, value) ==
    LET ty == type_check(type_, <<"int", "str">>)
        co == type_check(code, <<"int", "str">>)
        va == type_check(value, <<"int", "str">>)
    IN  IF IsErr(ty) \/ IsErr(co) \/ IsErr(va) THEN Raised(ms)
        ELSE IF IsErr(EcodeOf(ty)) \/ IsErr(EcodeOf(co)) THEN Raised(ms)
        ELSE LET t == EcodeOf(ty)
                 c == EcodeOf(co)
                 rel == IF t = IntV(EV_REL)
                        THEN AddCapability(
                                 AddCapability(
                                     AddCapability(ms, m, IntV(EV_REL), IntV(REL_X)),
                                     m, IntV(EV_REL), IntV(REL_Y)),
                                 m, IntV(EV_REL), IntV(REL_WHEEL))
                        ELSE ms
             IN  Built(AppendTask(
                     AppendTask(AddCapability(rel, m, t, c),
                         m, Task("event", t, c, va, NoneV)),
                     m, Task("pause", NoneV, NoneV, NoneV, NoneV)))

\* The direction tables of add_mouse and add_wheel: <<code, value>>
MouseDirection ==
    [d \in {"up", "down", "left", "right"} |->
        CASE d = "up" -> <<REL_Y, -1>>
          [] d = "down" -> <<REL_Y, 1>>
          [] d = "left" -> <<REL_X, -1>>
          [] OTHER -> <<REL_X, 1>>]

WheelDirection ==
    [d \in {"up", "down", "left", "right"} |->
        CASE d = "up" -> <<REL_WHEEL, 1>>
          [] d = "down" -> <<REL_WHEEL, -1>>
          [] d = "left" -> <<REL_HWHEEL, 1>>
          [] OTHER -> <<REL_HWHEEL, -1>>]

\* Macro.add_mouse
add_mouse(ms, m, direction, speed) ==
    IF IsErr(type_check(direction, <<"str">>)) THEN Raised(ms)
    ELSE IF IsErr(type_check(speed, <<"int">>)) THEN Raised(ms)
    ELSE IF direction.k # "str" THEN Raised(ms)
    ELSE IF Lower(direction.s) \notin DOMAIN MouseDirection THEN Raised(ms)
    ELSE Built(AppendTask(add_mouse_capabilities(ms, m), m,
             Task("mouse",
                  IntV(MouseDirection[Lower(direction.s)][1]),
                  IntV(MouseDirection[Lower(direction.s)][2]),
                  type_check(speed, <<"int">>), NoneV)))

\* Macro.add_wheel
add_wheel(ms, m, direction, speed) ==
    IF IsErr(type_check(direction, <<"str">>)) THEN Raised(ms)
    ELSE IF IsErr(type_check(speed, <<"int">>)) THEN Raised(ms)
    ELSE IF direction.k # "str" THEN Raised(ms)
    ELSE IF Lower(direction.s) \notin DOMAIN WheelDirection THEN Raised(ms)
    ELSE Built(AppendTask(add_mouse_capabilities(ms, m), m,
             Task("wheel",
                  IntV(WheelDirection[Lower(direction.s)][1]),
                  IntV(WheelDirection[Lower(direction.s)][2]),
                  type_check(speed, <<"int">>), NoneV)))

\* Macro.add_wait
add_wait(ms, m, time) ==
    IF IsErr(type_check(time, <<"int", "float">>)) THEN Raised(ms)
    ELSE Built(AppendTask(ms, m,
             Task("wait", type_check(time, <<"int", "float">>), NoneV, NoneV, NoneV)))

\* Macro.add_set
add_set(ms, m, variable, value) ==
    IF ~type_check_variablename(variable) THEN Raised(ms)
    ELSE Built(AppendTask(ms, m, Task("set", variable, value, NoneV, NoneV)))

\* Macro.add_ifeq
add_ifeq(ms, m, variable, value, then, else_) ==
    IF IsErr(type_check(then, <<"Macro", "None">>)) THEN Raised(ms)
    ELSE IF IsErr(type_check(else_, <<"Macro", "None">>)) THEN Raised(ms)
    ELSE Built(AppendTask(
             AppendIfMacro(AppendIfMacro(ms, m, then), m, else_),
             m, Task("ifeq", variable, value, then, else_)))

\* Macro.add_if_eq
add_if_eq(ms, m, value_1, value_2, then, else_) ==
    IF IsErr(type_check(then, <<"Macro", "None">>)) THEN Raised(ms)
    ELSE IF IsErr(type_check(else_, <<"Macro", "None">>)) THEN Raised(ms)
    ELSE Built(AppendTask(
             AppendIfMacro(AppendIfMacro(ms, m, then), m, else_),
             m, Task("if_eq", value_1, value_2, then, else_)))

\* Macro.add_if_tap
add_if_tap(ms, m, then, else_, timeout) ==
    IF IsErr(type_check(then, <<"Macro", "None">>)) THEN Raised(ms)
    ELSE IF IsErr(type_check(else_, <<"Macro", "None">>)) THEN Raised(ms)
    ELSE IF IsErr(type_check(timeout, <<"int", "float">>)) THEN Raised(ms)
    ELSE Built(AppendTask(
             AppendIfMacro(AppendIfMacro(ms, m, then), m, else_),
             m, Task("if_tap", type_check(timeout, <<"int", "float">>), NoneV,
                     then, else_)))

\* Macro.add_if_single
add_if_single(ms, m, then, else_, timeout) ==
    IF IsErr(type_check(then, <<"Macro", "None">>)) THEN Raised(ms)
    ELSE IF IsErr(type_check(else_, <<"Macro", "None">>)) THEN Raised(ms)
    ELSE Built(AppendTask(
             AppendIfMacro(AppendIfMacro(ms, m, then), m, else_),
             m, Task("if_single", timeout, NoneV, then, else_)))

\* One builder call of a script: the method f on macro m with its arguments.
Call(f, m, a, b, c, d) == [f |-> f, m |-> m, a |-> a, b |-> b, c |-> c, d |-> d]

ApplyCall(ms, call) ==
    CASE call.f = "add_key" -> add_key(ms, call.m, call.a)
      [] call.f = "add_hold" -> add_hold(ms, call.m, call.a)
      [] call.f = "add_modify" -> add_modify(ms, call.m, call.a, call.b)
      [] call.f = "add_repeat" -> add_repeat(ms, call.m, call.a, call.b)
      [] call.f = "add_event" -> add_event(ms, call.m, call.a, call.b, call.c)
      [] call.f = "add_mouse" -> add_mouse(ms, call.m, call.a, call.b)
      [] call.f = "add_wheel" -> add_wheel(ms, call.m, call.a, call.b)
      [] call.f = "add_wait" -> add_wait(ms, call.m, call.a)
      [] call.f = "add_set" -> add_set(ms, call.m, call.a, call.b)
      [] call.f = "add_ifeq" -> add_ifeq(ms, call.m, call.a, call.b, call.c, call.d)
      [] call.f = "add_if_eq" -> add_if_eq(ms, call.m, call.a, call.b, call.c, call.d)
      [] call.f = "add_if_tap" -> add_if_tap(ms, call.m, call.a, call.b, call.c)
      [] OTHER -> add_if_single(ms, call.m, call.a, call.b, call.c)

\* ------------------------------------------------------------------------
\* Scripts: the builder calls that the parser makes for a macro expression.
\* Children are built before the call that hands them to their parent.
\* ------------------------------------------------------------------------
Call1(f, m, a) == Call(f, m, a, NoneV, NoneV, NoneV)
Call2(f, m, a, b) == Call(f, m, a, b, NoneV, NoneV)
Call3(f, m, a, b, c) == Call(f, m, a, b, c, NoneV)

KeyA == Call1("add_key", 2, StrV("KEY_A"))
KeyB == Call1("add_key", 3, StrV("KEY_B"))

Scripts ==
    << \* 1: k(KEY_A).k(KEY_B)
       << Call1("add_key", 1, StrV("KEY_A")), Call1("add_key", 1, StrV("KEY_B")) >>,
       \* 2: h(KEY_A).k(KEY_B)
       << Call1("add_hold", 1, StrV("KEY_A")), Call1("add_key", 1, StrV("KEY_B")) >>,
       \* 3: m(KEY_LEFTSHIFT, k(KEY_A)).k(KEY_B)
       << KeyA,
          Call2("add_modify", 1, StrV("KEY_LEFTSHIFT"), MacV(2)),
          Call1("add_key", 1, StrV("KEY_B")) >>,
       \* 4: set(foo, 48).h($foo)
       << Call2("add_set", 1, StrV("foo"), IntV(KEY_B)),
          Call1("add_hold", 1, VarV("foo")) >>,
       \* 5: r($n, k(KEY_A)).k(KEY_B)
       << KeyA,
          Call2("add_repeat", 1, VarV("n"), MacV(2)),
          Call1("add_key", 1, StrV("KEY_B")) >>,
       \* 6: m(KEY_LEFTSHIFT, r($n, k(KEY_B))).k(KEY_A)
       << KeyB,
          Call2("add_repeat", 2, VarV("n"), MacV(3)),
          Call2("add_modify", 1, StrV("KEY_LEFTSHIFT"), MacV(2)),
          Call1("add_key", 1, StrV("KEY_A")) >>,
       \* 7: r(2, k(KEY_A))
       << KeyA, Call2("add_repeat", 1, StrV("2"), MacV(2)) >>,
       \* 8: h(k(KEY_A))
       << KeyA, Call1("add_hold", 1, MacV(2)) >>,
       \* 9: e(EV_KEY, KEY_A, 1)
       << Call3("add_event", 1, StrV("EV_KEY"), StrV("key_a"), IntV(1)) >>,
       \* 10: h().k(KEY_A)
       << Call1("add_hold", 1, NoneV), Call1("add_key", 1, StrV("KEY_A")) >>,
       \* 11: w(10).mouse(up, 2)
       << Call1("add_wait", 1, IntV(10)),
          Call2("add_mouse", 1, StrV("up"), IntV(2)) >>,
       \* 12: wheel(down, 1)
       << Call2("add_wheel", 1, StrV("down"), IntV(1)) >>,
       \* 13: wheel(up, 0)
       << Call2("add_wheel", 1, StrV("up"), IntV(0)) >>,
       \* 14: set(x, 5).if_eq($x, 5, k(KEY_A), k(KEY_B))
       << KeyA, KeyB,
          Call2("add_set", 1, StrV("x"), IntV(5)),
          Call("add_if_eq", 1, VarV("x"), IntV(5), MacV(2), MacV(3)) >>,
       \* 15: set(x, 5).ifeq(x, 5, k(KEY_A), k(KEY_B))
       << KeyA, KeyB,
          Call2("add_set", 1, StrV("x"), IntV(5)),
          Call("add_ifeq", 1, StrV("x"), IntV(5), MacV(2), MacV(3)) >>,
       \* 16: if_tap(e(EV_KEY, KEY_A, 1), set(x, 2), 5)
       << Call3("add_event", 2, StrV("EV_KEY"), StrV("KEY_A"), IntV(1)),
          Call2("add_set", 3, StrV("x"), IntV(2)),
          Call3("add_if_tap", 1, MacV(2), MacV(3), IntV(5)) >>,
       \* 17: if_single(k(KEY_A), k(KEY_B))
       << KeyA, KeyB, Call3("add_if_single", 1, MacV(2), MacV(3), NoneV) >>,
       \* 18: if_single(None, set(x, 2), 5)
       << Call2("add_set", 3, StrV("x"), IntV(2)),
          Call3("add_if_single", 1, NoneV, MacV(3), IntV(5)) >>,
       \* 19: set(b, 5).set(a, $b).if_eq($a, $b, k(KEY_A), k(KEY_B))
       << KeyA, KeyB,
          Call2("add_set", 1, StrV("b"), IntV(5)),
          Call2("add_set", 1, StrV("a"), VarV("b")),
          Call("add_if_eq", 1, VarV("a"), VarV("b"), MacV(2), MacV(3)) >>,
       \* 20: r(0, k(KEY_B)).set(n, 2).r($n, set(n, 0).k(KEY_A))
       << Call2("add_set", 2, StrV("n"), IntV(0)),
          KeyA, KeyB,
          Call2("add_repeat", 1, IntV(0), MacV(3)),
          Call2("add_set", 1, StrV("n"), IntV(2)),
          Call2("add_repeat", 1, VarV("n"), MacV(2)) >>,
       \* 21: e(EV_REL, REL_X, 1)
       << Call3("add_event", 1, StrV("EV_REL"), StrV("REL_X"), IntV(1)) >>,
       \* 22: h(set(x, 1))
       << Call2("add_set", 2, StrV("x"), IntV(1)), Call1("add_hold", 1, MacV(2)) >>,
       \* 23: w(10).if_single(set(x, 1), None, 5)
       << Call2("add_set", 2, StrV("x"), IntV(1)),
          Call1("add_wait", 1, IntV(10)),
          Call3("add_if_single", 1, MacV(2), NoneV, IntV(5)) >>,
       \* 24: k(KEY_A).m(KEY_NOPE, k(KEY_B))
       << Call1("add_key", 1, StrV("KEY_A")),
          KeyB,
          Call2("add_modify", 1, StrV("KEY_NOPE"), MacV(3)) >>,
       \* 25: k(KEY_A).e(EV_NOPE, KEY_A, 1)
       << Call1("add_key", 1, StrV("KEY_A")),
          Call3("add_event", 1, StrV("EV_NOPE"), StrV("KEY_A"), IntV(1)) >>,
       \* 26: k(KEY_A).mouse(up, a)
       << Call1("add_key", 1, StrV("KEY_A")),
          Call2("add_mouse", 1, StrV("up"), StrV("a")) >>,
       \* 27: k(KEY_A).set(1x, 5)
       << Call1("add_key", 1, StrV("KEY_A")),
          Call2("add_set", 1, StrV("1x"), IntV(5)) >>
    >>

\* ------------------------------------------------------------------------
\* State
\* ------------------------------------------------------------------------
VARIABLES
    phase,            \* "build", "run", or "failed" (a builder call raised)
    script,           \* the builder calls still to make
    macros,           \* the Macro objects, by id; 1 is the outermost macro
    declared,         \* get_capabilities() of macro 1 as read when building ended
    macro_variables,  \* the process-wide variable store
    runners,          \* the asyncio tasks that call macros[1].run(handler)
    log,              \* what the handler wrote, in order
    fails,            \* how many handler calls raised
    edge,             \* history: the last trigger transition that took effect
                      \* ("release" at first: Macro.__init__ sets the release event)
    heard,            \* history: per task, what reached the macro since the
                      \* task it is in started.  In add_if_single.task, what
                      \* was notified first: "other" (the press of another
                      \* key), "own" (the release of the key of the triggering
                      \* event), "ownp" (another event of that key).  In
                      \* add_if_tap.task, before the timer fired:
                      \* "h" (entered holding), "hr" (then released), "u"
                      \* (entered not holding), "up" (then pressed), "upr"
                      \* (then released).  In add_hold.task with a key, in the
                      \* wait for the release: "h" (entered holding), "hr"
                      \* (then released).  "" otherwise.
    aborted,          \* history: per task, the depth of the Macro.run that a
                      \* failed _resolve ended last (0: none, 1: the outermost)
    notified          \* history: per macro, notify reached it since its run
                      \* was last accepted

vars == <<phase, script, macros, declared, macro_variables, runners, log, fails,
          edge, heard, aborted, notified>>

\* A frame is one invocation of Macro.run: macro m, position i in m.tasks,
\* the place pc inside task i, and the task's locals (n: an int local,
\* ev: triggering_event, w: the state of the coroutine that asyncio.wait_for
\* wraps in a task of its own, tmo: its timer has fired).
Frame(m) == [m |-> m, i |-> 0, pc |-> "enter", n |-> 0, ev |-> NoEvent,
             w |-> "", tmo |-> FALSE]

\* st: "idle" (not created), "ready" (scheduled on the loop, or sleeping on a
\* timer that may fire at any moment), "running" (holds the loop), "waiting"
\* (suspended on the asyncio.Event `on` of the macro of its innermost frame,
\* or in asyncio.wait_for), "done", "cancelled".  on = "cancelling": the task
\* is in asyncio.wait_for and task.cancel() was called; the CancelledError is
\* delivered at the next step of the task.
Runner(st, stack, on) == [st |-> st, stack |-> stack, on |-> on]

Init ==
    /\ phase = "build"
    /\ script \in {Scripts[k] : k \in DOMAIN Scripts}
    /\ macros = [m \in MacroIds |-> NewMacro]
    /\ declared = {}
    /\ macro_variables = [name \in {} |-> NoneV]
    /\ runners = [r \in Runners |-> Runner("idle", <<>>, "")]
    /\ log = <<>>
    /\ fails = 0
    /\ edge = "release"
    /\ heard = [r \in Runners |-> ""]
    /\ aborted = [r \in Runners |-> 0]
    /\ notified = [m \in MacroIds |-> FALSE]

\* No task holds the event loop: callbacks of the loop may run.
Idle == \A r \in Runners : runners[r].st # "running"

\* The task is scheduled on the loop or holds it.
Scheduled(r) == runners[r].st \in {"running", "ready"}

\* The task executes its next statements: it holds the loop, or it is ready
\* and the loop, which no task holds, gives it its turn.
HasLoop(r) == Scheduled(r) /\ (runners[r].st = "running" \/ Idle)

Top(r) == runners[r].stack[Len(runners[r].stack)]

InTask(r) ==
    /\ runners[r].stack # <<>>
    /\ Top(r).pc # "enter"
    /\ Top(r).i <= Len(macros[Top(r).m].tasks)

Cur(r) == macros[Top(r).m].tasks[Top(r).i]

At(r, op, pc) ==
    /\ Scheduled(r)
    /\ runners[r].stack # <<>>
    /\ Top(r).pc = pc
    /\ InTask(r)
    /\ Cur(r).op = op
    /\ HasLoop(r)

\* ------------------------------------------------------------------------
\* Macro.get_capabilities, is_holding and the variable store
\* ------------------------------------------------------------------------
RECURSIVE get_capabilities(_, _)
get_capabilities(ms, m) ==
    ms[m].capabilities
        \cup UNION {get_capabilities(ms, ms[m].child_macros[k]) :
                        k \in DOMAIN ms[m].child_macros}

\* Macro.is_holding
is_holding(ms, m) == ~ms[m].trigger_release

\* macro_variables.get(name)
variables_get(store, name) == IF name \in DOMAIN store THEN store[name] ELSE NoneV

\* _resolve(argument, allowed_types); allowed = <<>> stands for None
resolve(store, argument, allowed) ==
    IF argument.k = "var"
    THEN (IF allowed # <<>>
          THEN type_check(variables_get(store, argument.s), allowed)
          ELSE variables_get(store, argument.s))
    ELSE argument

\* ------------------------------------------------------------------------
\* Building
\* ------------------------------------------------------------------------
Build ==
    /\ phase = "build"
    /\ script # <<>>
    /\ macros' = ApplyCall(macros, Head(script)).ms
    /\ script' = Tail(script)
    /\ phase' = IF ApplyCall(macros, Head(script)).ok THEN "build" ELSE "failed"
    /\ UNCHANGED <<declared, macro_variables, runners, log, fails, edge, heard, aborted, notified>>

\* The macro is handed over: its capabilities are read to create the device.
FinishBuild ==
    /\ phase = "build"
    /\ script = <<>>
    /\ phase' = "run"
    /\ declared' = get_capabilities(macros, 1)
    /\ UNCHANGED <<script, macros, macro_variables, runners, log, fails, edge, heard, aborted, notified>>

\* ------------------------------------------------------------------------
\* Moves of a task
\* ------------------------------------------------------------------------
ReplTop(r, f) == [runners[r].stack EXCEPT ![Len(runners[r].stack)] = f]

\* the task goes on without giving up the loop
Go(r, f) == runners' = [runners EXCEPT ![r] = Runner("running", ReplTop(r, f), "")]

\* await asyncio.sleep(...): the task gives up the loop until its timer fires
Sleep(r, f) == runners' = [runners EXCEPT ![r] = Runner("ready", ReplTop(r, f), "")]

\* await event.wait() of an event that is not set
Block(r, f, on) ==
    runners' = [runners EXCEPT ![r] = Runner("waiting", ReplTop(r, f), on)]

\* await event.wait(): returns at once when the event is set
Await(r, f, isset, on) == IF isset THEN Go(r, f) ELSE Block(r, f, on)

\* await child.run(handler)
Enter(r, f, child) ==
    runners' = [runners EXCEPT ![r] =
                    Runner("running", Append(ReplTop(r, f), Frame(child)), "")]

\* Macro.run returns to the task that awaits it, or ends the asyncio task
Return(r) ==
    LET rest == SubSeq(runners[r].stack, 1, Len(runners[r].stack) - 1)
    IN  runners' = [runners EXCEPT ![r] =
                        Runner(IF rest = <<>> THEN "done" ELSE "running", rest, "")]

\* the for loop of Macro.run moves to the next task
NextOf(f) == [Frame(f.m) EXCEPT !.i = f.i + 1, !.pc = "start"]

At2(f, pc) == [f EXCEPT !.pc = pc]

\* The frame of a task whose last statement awaits a child: when the child
\* returns the task ends, and none of its locals is read again.
EndOf(f) == [Frame(f.m) EXCEPT !.i = f.i, !.pc = "end"]

\* ------------------------------------------------------------------------
\* Macro.run
\* ------------------------------------------------------------------------
KeystrokeSleepMs == 10

\* Variant for C29: run without line 282.
RunAcceptKeepsEvent(ms, m) ==
    [ms EXCEPT ![m].keystroke_sleep_ms = IntV(KeystrokeSleepMs),
               ![m].running = TRUE]

\* lines 280-285: the state of an accepted run before its first task
RunAccept(ms, m) ==
    [ms EXCEPT ![m].new_event_arrived = FALSE,
               ![m].keystroke_sleep_ms = IntV(KeystrokeSleepMs),
               ![m].running = TRUE]

\* Variant for C3: the guard of line 276 never finds the macro running.
IsRunningNever(ms, m) == FALSE

\* line 276: if self.running
IsRunning(ms, m) == ms[m].running

\* lines 276-278: a run that finds the macro running
RunReject(ms, m) == ms

\* lines 295-296
RunDone(ms, m) == [ms EXCEPT ![m].running = FALSE]

\* Variant for C9: the except branch leaves running as it is.
RunExceptKeepsRunning(ms, m) == ms

\* lines 291-293: an Exception of a task is logged, the loop is left
RunExcept(ms, m) == RunDone(ms, m)

\* asyncio.ensure_future(macro.run(handler)) by the injector. The asyncio tasks
\* are numbered in the order of their creation. What the loop runs between the
\* creation of the task and its first step neither reads nor writes the new
\* task, so the task appears here where the loop gives it its first step (a
\* task cancelled before its first step executes nothing of Macro.run).
Start(r) ==
    /\ phase = "run"
    /\ runners[r].st = "idle"
    /\ Idle
    /\ \A q \in Runners : q < r => runners[q].st # "idle"
    /\ runners' = [runners EXCEPT ![r] = Runner("running", <<Frame(1)>>, "")]
    /\ UNCHANGED <<phase, script, macros, declared, macro_variables, log, fails,
                   edge, heard, aborted, notified>>

RunRejected(r) ==
    /\ Scheduled(r)
    /\ runners[r].stack # <<>>
    /\ Top(r).pc = "enter"
    /\ HasLoop(r)
    /\ IsRunning(macros, Top(r).m)
    /\ macros' = RunReject(macros, Top(r).m)
    /\ Return(r)
    /\ UNCHANGED <<phase, script, declared, macro_variables, log, fails, edge, heard, aborted, notified>>

RunAccepted(r) ==
    /\ Scheduled(r)
    /\ runners[r].stack # <<>>
    /\ Top(r).pc = "enter"
    /\ HasLoop(r)
    /\ ~IsRunning(macros, Top(r).m)
    /\ macros' = RunAccept(macros, Top(r).m)
    /\ Go(r, NextOf(Top(r)))
    /\ notified' = [notified EXCEPT ![Top(r).m] = FALSE]
    /\ UNCHANGED <<phase, script, declared, macro_variables, log, fails, edge, heard, aborted>>

RunFinished(r) ==
    /\ Scheduled(r)
    /\ runners[r].stack # <<>>
    /\ Top(r).pc = "start"
    /\ HasLoop(r)
    /\ Top(r).i > Len(macros[Top(r).m].tasks)
    /\ macros' = RunDone(macros, Top(r).m)
    /\ Return(r)
    /\ UNCHANGED <<phase, script, declared, macro_variables, log, fails, edge, heard, aborted, notified>>

\* ------------------------------------------------------------------------
\* The handler and exceptions of a task
\* ------------------------------------------------------------------------
static == <<phase, script, declared>>
hist == <<edge, heard, aborted, notified>>

IsNum(v) == v.k = "int" \/ v.k = "float"

\* handler(type, code, value) writes one event; `by` names the kind of task
\* that made the call
Emit(r, type, code, value) ==
    /\ Len(log) < MaxLog
    /\ log' = Append(log, [type |-> type, code |-> code, value |-> value,
                           by |-> Cur(r).op, run |-> r])
    /\ fails' = fails

\* The task is about to call the handler.
CallsHandler(r) ==
    /\ InTask(r)
    /\ \/ Cur(r).op = "key" /\ Top(r).pc \in {"start", "k1"}
       \/ Cur(r).op = "hold_key" /\ Top(r).pc = "h1"
       \/ /\ Cur(r).op = "hold_key" /\ Top(r).pc = "start"
          /\ ~IsErr(resolve(macro_variables, Cur(r).a, <<"int">>))
       \/ Cur(r).op = "modify" /\ Top(r).pc \in {"m1", "m4"}
       \/ Cur(r).op = "event" /\ Top(r).pc = "start"
       \/ /\ Cur(r).op \in {"mouse", "wheel"} /\ Top(r).pc = "loop"
          /\ is_holding(macros, Top(r).m)

\* What the task wrote to its macro before the handler call it is about to make.
BeforeHandler(ms, r) ==
    IF Cur(r).op = "hold_key" /\ Top(r).pc = "start"
    THEN AddCapability(ms, Top(r).m, IntV(EV_KEY), resolve(macro_variables, Cur(r).a, <<"int">>))
    ELSE ms

\* The next statement of the task raises an Exception other than one of the
\* handler: a TypeError of _resolve, the TypeError of an operation on a
\* Variable that _resolve returned as it is (range(v), value * v, v / 1000,
\* 1 / v), the AttributeError of if_single without an event, the
\* ZeroDivisionError of wheel.
Raises(r) ==
    /\ InTask(r)
    /\ \/ /\ Cur(r).op = "hold_key" /\ Top(r).pc = "start"
          /\ IsErr(resolve(macro_variables, Cur(r).a, <<"int">>))
       \/ /\ Cur(r).op = "repeat" /\ Top(r).pc = "start"
          /\ resolve(macro_variables, Cur(r).a, <<"int">>).k # "int"
       \/ /\ Cur(r).op = "mouse" /\ Top(r).pc = "start"
          /\ resolve(macro_variables, Cur(r).c, <<"int">>).k # "int"
       \/ /\ Cur(r).op = "wheel" /\ Top(r).pc = "start"
          /\ IsErr(resolve(macro_variables, Cur(r).c, <<"int">>))
       \/ Cur(r).op = "wheel" /\ Top(r).pc = "w1" /\ Top(r).n = 0
       \/ /\ Cur(r).op \in {"wait", "if_tap"} /\ Top(r).pc = "start"
          /\ ~IsNum(resolve(macro_variables, Cur(r).a, <<"int", "float">>))
       \/ /\ Cur(r).op = "if_single" /\ Top(r).pc = "start"
          /\ \/ macros[Top(r).m].newest_event = NoEvent
             \/ resolve(macro_variables, Cur(r).a, <<"int", "float", "None">>).k
                    \notin {"int", "float", "none"}

\* The Exception is the TypeError that _resolve raises (the _type_check of
\* line 145 on what the $variable holds).  In if_single, line 632 comes first.
ResolveRaises(r) ==
    /\ Raises(r)
    /\ Top(r).pc = "start"
    /\ \/ /\ Cur(r).op \in {"hold_key", "repeat"}
          /\ IsErr(resolve(macro_variables, Cur(r).a, <<"int">>))
       \/ /\ Cur(r).op \in {"mouse", "wheel"}
          /\ IsErr(resolve(macro_variables, Cur(r).c, <<"int">>))
       \/ /\ Cur(r).op \in {"wait", "if_tap"}
          /\ IsErr(resolve(macro_variables, Cur(r).a, <<"int", "float">>))
       \/ /\ Cur(r).op = "if_single"
          /\ macros[Top(r).m].newest_event # NoEvent
          /\ IsErr(resolve(macro_variables, Cur(r).a, <<"int", "float", "None">>))

\* The handler raises: Macro.run logs it and stops (lines 291-296).
HandlerFails(r) ==
    /\ fails < MaxFails
    /\ Scheduled(r)
    /\ CallsHandler(r)
    /\ HasLoop(r)
    /\ fails' = fails + 1
    /\ macros' = RunExcept(BeforeHandler(macros, r), Top(r).m)
    /\ Return(r)
    /\ heard' = [heard EXCEPT ![r] = ""]
    /\ UNCHANGED <<static, edge, aborted, notified, macro_variables, log>>

\* Variant for C10: the exception is swallowed and the loop goes on with the
\* next task.
TaskRaisesGoesOn(r) ==
    /\ Scheduled(r)
    /\ Raises(r)
    /\ HasLoop(r)
    /\ Go(r, NextOf(Top(r)))
    /\ aborted' = IF ResolveRaises(r)
                  THEN [aborted EXCEPT ![r] = Len(runners[r].stack)]
                  ELSE aborted
    /\ UNCHANGED <<static, edge, heard, notified, macros, macro_variables, log, fails>>

\* A statement of the task raises: Macro.run logs it and stops.
TaskRaises(r) ==
    /\ Scheduled(r)
    /\ Raises(r)
    /\ HasLoop(r)
    /\ macros' = RunExcept(macros, Top(r).m)
    /\ Return(r)
    /\ aborted' = IF ResolveRaises(r)
                  THEN [aborted EXCEPT ![r] = Len(runners[r].stack)]
                  ELSE aborted
    /\ UNCHANGED <<static, edge, heard, notified, macro_variables, log, fails>>

\* The task returned; the loop of Macro.run goes on.
TaskEnd(r) ==
    /\ Scheduled(r)
    /\ InTask(r)
    /\ Top(r).pc = "end"
    /\ HasLoop(r)
    /\ Go(r, NextOf(Top(r)))
    /\ UNCHANGED <<static, hist, macros, macro_variables, log, fails>>

\* ------------------------------------------------------------------------
\* The tasks that the builder methods compile
\* ------------------------------------------------------------------------
\* add_key.task
KeyDown(r) ==
    /\ At(r, "key", "start")
    /\ Emit(r, EV_KEY, PyArg(Cur(r).a), 1)
    /\ Sleep(r, At2(Top(r), "k1"))
    /\ UNCHANGED <<static, hist, macros, macro_variables>>

KeyUp(r) ==
    /\ At(r, "key", "k1")
    /\ Emit(r, EV_KEY, PyArg(Cur(r).a), 0)
    /\ Sleep(r, At2(Top(r), "end"))
    /\ UNCHANGED <<static, hist, macros, macro_variables>>

\* add_hold without argument: lambda _: self._trigger_release_event.wait()
Hold(r) ==
    /\ At(r, "hold", "start")
    /\ Await(r, At2(Top(r), "end"), macros[Top(r).m].trigger_release, "release")
    /\ UNCHANGED <<static, hist, macros, macro_variables, log, fails>>

\* add_hold with a key name, lines 348-351
HoldKeyDown(r) ==
    /\ At(r, "hold_key", "start")
    /\ ~Raises(r)
    /\ macros' = BeforeHandler(macros, r)
    /\ Emit(r, EV_KEY, PyArg(resolve(macro_variables, Cur(r).a, <<"int">>)), 1)
    /\ Await(r, [Top(r) EXCEPT !.pc = "h1",
                               !.n = PyArg(resolve(macro_variables, Cur(r).a, <<"int">>))],
             macros[Top(r).m].trigger_release, "release")
    /\ heard' = [heard EXCEPT ![r] = IF is_holding(macros, Top(r).m) THEN "h" ELSE ""]
    /\ UNCHANGED <<static, edge, aborted, notified, macro_variables>>

\* line 352
\* Variant for C6: the task returns without line 351.
HoldKeyNoUp(r) ==
    /\ At(r, "hold_key", "h1")
    /\ Go(r, NextOf(Top(r)))
    /\ heard' = [heard EXCEPT ![r] = ""]
    /\ UNCHANGED <<static, edge, aborted, notified, macros, macro_variables, log, fails>>

HoldKeyUp(r) ==
    /\ At(r, "hold_key", "h1")
    /\ Emit(r, EV_KEY, Top(r).n, 0)
    /\ Go(r, NextOf(Top(r)))
    /\ heard' = [heard EXCEPT ![r] = ""]
    /\ UNCHANGED <<static, edge, aborted, notified, macros, macro_variables>>

\* Variant for C22: the loop of lines 360-363 does not look at the trigger.
HoldMacroAlways(r) ==
    /\ At(r, "hold_macro", "start")
    /\ Enter(r, Top(r), Cur(r).b.n)
    /\ UNCHANGED <<static, hist, macros, macro_variables, log, fails>>

\* add_hold with a macro, lines 360-363
HoldMacro(r) ==
    /\ At(r, "hold_macro", "start")
    /\ IF is_holding(macros, Top(r).m)
       THEN Enter(r, Top(r), Cur(r).b.n)
       ELSE Go(r, NextOf(Top(r)))
    /\ UNCHANGED <<static, hist, macros, macro_variables, log, fails>>

\* add_modify.task, lines 389-391
ModifyStart(r) ==
    /\ At(r, "modify", "start")
    /\ macros' = AddCapability(macros, Top(r).m, IntV(EV_KEY),
                               resolve(macro_variables, Cur(r).a, <<"int">>))
    /\ Sleep(r, At2(Top(r), "m1"))
    /\ UNCHANGED <<static, hist, macro_variables, log, fails>>

\* lines 392-393
ModifyDown(r) ==
    /\ At(r, "modify", "m1")
    /\ Emit(r, EV_KEY, Cur(r).a.n, 1)
    /\ Sleep(r, At2(Top(r), "m2"))
    /\ UNCHANGED <<static, hist, macros, macro_variables>>

\* line 394
ModifyChild(r) ==
    /\ At(r, "modify", "m2")
    /\ Enter(r, At2(Top(r), "m3"), Cur(r).b.n)
    /\ UNCHANGED <<static, hist, macros, macro_variables, log, fails>>

\* line 395
ModifyPause(r) ==
    /\ At(r, "modify", "m3")
    /\ Sleep(r, At2(Top(r), "m4"))
    /\ UNCHANGED <<static, hist, macros, macro_variables, log, fails>>

\* lines 396-397
ModifyUp(r) ==
    /\ At(r, "modify", "m4")
    /\ Emit(r, EV_KEY, Cur(r).a.n, 0)
    /\ Sleep(r, At2(Top(r), "end"))
    /\ UNCHANGED <<static, hist, macros, macro_variables>>

\* add_repeat.task: range(_resolve(repeats, [int])) is evaluated once
RepeatStart(r) ==
    /\ At(r, "repeat", "start")
    /\ ~Raises(r)
    /\ Go(r, [Top(r) EXCEPT !.pc = "loop",
                            !.n = resolve(macro_variables, Cur(r).a, <<"int">>).n])
    /\ UNCHANGED <<static, hist, macros, macro_variables, log, fails>>

\* Variant for C12: the loop reads the variable again before every iteration.
RepeatLoopRereads(r) ==
    /\ At(r, "repeat", "loop")
    /\ IF Top(r).n > 0 /\ resolve(macro_variables, Cur(r).a, <<"int">>).n > 0
       THEN Enter(r, [Top(r) EXCEPT !.n = @ - 1], Cur(r).b.n)
       ELSE Go(r, NextOf(Top(r)))
    /\ UNCHANGED <<static, hist, macros, macro_variables, log, fails>>

RepeatLoop(r) ==
    /\ At(r, "repeat", "loop")
    /\ IF Top(r).n > 0
       THEN Enter(r, [Top(r) EXCEPT !.n = @ - 1], Cur(r).b.n)
       ELSE Go(r, NextOf(Top(r)))
    /\ UNCHANGED <<static, hist, macros, macro_variables, log, fails>>

\* add_event: lambda handler: handler(type_, code, value)
EventEmit(r) ==
    /\ At(r, "event", "start")
    /\ Emit(r, PyArg(Cur(r).a), PyArg(Cur(r).b), PyArg(Cur(r).c))
    /\ Go(r, NextOf(Top(r)))
    /\ UNCHANGED <<static, hist, macros, macro_variables>>

\* add_event: self._keycode_pause
Pause(r) ==
    /\ At(r, "pause", "start")
    /\ Sleep(r, At2(Top(r), "end"))
    /\ UNCHANGED <<static, hist, macros, macro_variables, log, fails>>

\* add_wait.task
Wait(r) ==
    /\ At(r, "wait", "start")
    /\ ~Raises(r)
    /\ Sleep(r, At2(Top(r), "end"))
    /\ UNCHANGED <<static, hist, macros, macro_variables, log, fails>>

\* add_set.task: macro_variables[variable] = value
SetVariable(store, variable, value) ==
    [name \in DOMAIN store \cup {variable.s} |->
        IF name = variable.s THEN value ELSE store[name]]

Set(r) ==
    /\ At(r, "set", "start")
    /\ macro_variables' = SetVariable(macro_variables, Cur(r).a, Cur(r).b)
    /\ Go(r, NextOf(Top(r)))
    /\ UNCHANGED <<static, hist, macros, log, fails>>

\* add_mouse.task
MouseStart(r) ==
    /\ At(r, "mouse", "start")
    /\ ~Raises(r)
    /\ Go(r, [Top(r) EXCEPT !.pc = "loop",
                 !.n = Cur(r).b.n * resolve(macro_variables, Cur(r).c, <<"int">>).n])
    /\ UNCHANGED <<static, hist, macros, macro_variables, log, fails>>

\* Variant for C17: the loop writes without looking at the trigger.
MouseLoopAlways(r) ==
    /\ At(r, "mouse", "loop")
    /\ Emit(r, EV_REL, Cur(r).a.n, Top(r).n) /\ Sleep(r, Top(r))
    /\ UNCHANGED <<static, hist, macros, macro_variables>>

MouseLoop(r) ==
    /\ At(r, "mouse", "loop")
    /\ IF is_holding(macros, Top(r).m)
       THEN Emit(r, EV_REL, Cur(r).a.n, Top(r).n) /\ Sleep(r, Top(r))
       ELSE Go(r, NextOf(Top(r))) /\ UNCHANGED <<log, fails>>
    /\ UNCHANGED <<static, hist, macros, macro_variables>>

\* add_wheel.task; the local n is resolved_speed, 0 also for a Variable that
\* _resolve returned as it is: 1 / resolved_speed raises for both
WheelStart(r) ==
    /\ At(r, "wheel", "start")
    /\ ~Raises(r)
    /\ Go(r, [Top(r) EXCEPT !.pc = "loop",
                 !.n = IF resolve(macro_variables, Cur(r).c, <<"int">>).k = "int"
                       THEN resolve(macro_variables, Cur(r).c, <<"int">>).n
                       ELSE 0])
    /\ UNCHANGED <<static, hist, macros, macro_variables, log, fails>>

WheelLoop(r) ==
    /\ At(r, "wheel", "loop")
    /\ IF is_holding(macros, Top(r).m)
       THEN Emit(r, EV_REL, Cur(r).a.n, Cur(r).b.n) /\ Go(r, At2(Top(r), "w1"))
       ELSE Go(r, NextOf(Top(r))) /\ UNCHANGED <<log, fails>>
    /\ UNCHANGED <<static, hist, macros, macro_variables>>

\* await asyncio.sleep(1 / resolved_speed)
WheelSleep(r) ==
    /\ At(r, "wheel", "w1")
    /\ ~Raises(r)
    /\ Sleep(r, At2(Top(r), "loop"))
    /\ UNCHANGED <<static, hist, macros, macro_variables, log, fails>>

\* ------------------------------------------------------------------------
\* Conditionals
\* ------------------------------------------------------------------------
\* Python's == on the values a macro compares.  Macro and Variable define no
\* __eq__: an object equals itself only.  A Macro argument is the object
\* itself; of a Variable one operand at least comes out of the store, which
\* hands out copies: it equals nothing.
PyEq(v, w) ==
    \/ IsNum(v) /\ IsNum(w) /\ v.n = w.n
    \/ v.k = "str" /\ w.k = "str" /\ v.s = w.s
    \/ v.k = "none" /\ w.k = "none"
    \/ v.k = "macro" /\ w.k = "macro" /\ v.n = w.n

\* `if then is not None: await then.run(handler)`, then the task returns
Branch(r, child) ==
    IF child.k = "macro"
    THEN Enter(r, EndOf(Top(r)), child.n)
    ELSE Go(r, NextOf(Top(r)))

\* add_ifeq.task
IfEqLegacy(r) ==
    /\ At(r, "ifeq", "start")
    /\ IF PyEq(IF Cur(r).a.k = "str"
               THEN variables_get(macro_variables, Cur(r).a.s) ELSE NoneV,
               Cur(r).b)
       THEN Branch(r, Cur(r).c)
       ELSE Branch(r, Cur(r).d)
    /\ UNCHANGED <<static, hist, macros, macro_variables, log, fails>>

\* add_if_eq.task
IfEq(r) ==
    /\ At(r, "if_eq", "start")
    /\ IF PyEq(resolve(macro_variables, Cur(r).a, <<>>),
               resolve(macro_variables, Cur(r).b, <<>>))
       THEN Branch(r, Cur(r).c)
       ELSE Branch(r, Cur(r).d)
    /\ UNCHANGED <<static, hist, macros, macro_variables, log, fails>>

\* ------------------------------------------------------------------------
\* asyncio.wait_for(coroutine, timeout), Python 3.8 to 3.11: the coroutine
\* becomes a task of its own that first runs at the next turn of the loop; the
\* caller is scheduled when that task is done or when the timer fires, and
\* when it wakes it raises TimeoutError unless the task is done by then (a
\* step of the task that was scheduled before the caller runs before it).  w
\* is the inner task's
\* place: "new" (created), "press" / "release" / "event" (suspended on that
\* asyncio.Event), "..._woken" (the event was set, the task is scheduled),
\* "done".
\* ------------------------------------------------------------------------
\* await self._trigger_release_event.wait() inside add_if_tap.wait
AwaitRelease(ms, m) == IF ms[m].trigger_release THEN "done" ELSE "release"

\* add_if_tap.wait, lines 601-607: the inner task's next place
TapWait(ms, f) ==
    CASE f.w = "new" ->
            (IF is_holding(ms, f.m) THEN AwaitRelease(ms, f.m)
             ELSE IF ms[f.m].trigger_press THEN AwaitRelease(ms, f.m)
             ELSE "press")
      [] f.w = "press_woken" -> AwaitRelease(ms, f.m)
      [] f.w = "release_woken" -> "done"
      [] OTHER -> f.w

\* add_if_single.event_filter, lines 634-642
event_filter(ms, m, triggering_event) ==
    \/ ms[m].newest_event = triggering_event
    \/ ms[m].newest_action \in {IntV(PRESS), IntV(PRESS_NEGATIVE)}

\* Macro._wait_for_event: does one pass of the loop end the wait?
EventPasses(ms, f) ==
    /\ f.w = "event_woken" \/ ms[f.m].new_event_arrived
    /\ event_filter(ms, f.m, f.ev)

\* Macro._wait_for_event as the inner task: its next place
EventWait(ms, f) ==
    CASE f.w \in {"new", "event_woken"} ->
            (IF EventPasses(ms, f) THEN "done" ELSE "event")
      [] OTHER -> f.w

\* self._new_event_arrived.clear() after a wait that returned
EventClear(ms, f) ==
    IF f.w = "event_woken" \/ ms[f.m].new_event_arrived
    THEN [ms EXCEPT ![f.m].new_event_arrived = FALSE]
    ELSE ms

InnerPending(f) == f.w \in {"new", "press_woken", "release_woken", "event_woken"}

InnerPlace(ms, f, op) ==
    IF ~InnerPending(f) THEN f.w
    ELSE IF op = "if_tap" THEN TapWait(ms, f) ELSE EventWait(ms, f)

InnerMacros(ms, f, op) ==
    IF InnerPending(f) /\ op = "if_single" THEN EventClear(ms, f) ELSE ms

InWaitFor(r) ==
    /\ runners[r].st = "waiting"
    /\ runners[r].on \in {"wait_for", "cancelling"}
    /\ Idle

\* The loop runs the inner task up to its next suspension.  The caller wakes
\* when the inner task is done, or, after the timer fired or task.cancel() was
\* called, at any rate: the step of the inner task was scheduled before the
\* wake-up of the caller, which comes next.
InnerStep(r) ==
    /\ InWaitFor(r)
    /\ InnerPending(Top(r))
    /\ macros' = InnerMacros(macros, Top(r), Cur(r).op)
    /\ runners' = [runners EXCEPT ![r] =
            Runner(IF \/ InnerPlace(macros, Top(r), Cur(r).op) = "done"
                      \/ runners[r].on = "cancelling"
                      \/ Top(r).tmo
                   THEN "ready" ELSE "waiting",
                   ReplTop(r, [Top(r) EXCEPT !.w = InnerPlace(macros, Top(r), Cur(r).op)]),
                   runners[r].on)]
    /\ UNCHANGED <<static, hist, macro_variables, log, fails>>

\* The timer of wait_for fires: _release_waiter resolves the waiter, which
\* schedules the caller.  A step of the inner task that is scheduled by now
\* runs before the caller wakes, and sees what is pressed, released and
\* notified until it runs.  The first step of the inner task has run by
\* then: wait_for schedules it in the turn of the loop in which it is called,
\* and the timer (timeout > 0) is due in a later turn, after the steps that
\* are scheduled already.
TimeoutFires(r) ==
    /\ InWaitFor(r)
    /\ runners[r].on = "wait_for"
    /\ ~Top(r).tmo
    /\ Top(r).w # "new"
    /\ runners' = [runners EXCEPT ![r] =
            Runner(IF InnerPending(Top(r)) THEN "waiting" ELSE "ready",
                   ReplTop(r, [Top(r) EXCEPT !.tmo = TRUE]),
                   "wait_for")]
    /\ UNCHANGED <<static, hist, macros, macro_variables, log, fails>>

\* asyncio.wait_for, `except CancelledError` around `await waiter`: the
\* CancelledError of a task.cancel() is swallowed when the inner task is done
\* by the time it is delivered (`if fut.done(): return fut.result()`).
Swallowed(r) == runners[r].on = "cancelling" => Top(r).w = "done"

\* add_if_tap.task, lines 610-612
IfTapStart(r) ==
    /\ At(r, "if_tap", "start")
    /\ ~Raises(r)
    /\ IF resolve(macro_variables, Cur(r).a, <<"int", "float">>).n <= 0
       THEN Sleep(r, [Top(r) EXCEPT !.pc = "wf", !.w = "new", !.tmo = TRUE])
       ELSE Block(r, [Top(r) EXCEPT !.pc = "wf", !.w = "new"], "wait_for")
    /\ heard' = [heard EXCEPT
                    ![r] = IF is_holding(macros, Top(r).m) THEN "h" ELSE "u"]
    /\ UNCHANGED <<static, edge, aborted, notified, macros, macro_variables, log, fails>>

\* lines 613-617: wait_for returned or raised TimeoutError
IfTapReturns(r) ==
    /\ At(r, "if_tap", "wf")
    /\ Swallowed(r)
    /\ IF Top(r).w = "done" THEN Branch(r, Cur(r).c) ELSE Branch(r, Cur(r).d)
    /\ heard' = [heard EXCEPT ![r] = ""]
    /\ UNCHANGED <<static, edge, aborted, notified, macros, macro_variables, log, fails>>

\* add_if_single.task, lines 632-650
IfSingleStart(r) ==
    LET timeout == resolve(macro_variables, Cur(r).a, <<"int", "float", "None">>)
        f == [Top(r) EXCEPT !.ev = macros[Top(r).m].newest_event]
    IN  /\ At(r, "if_single", "start")
        /\ ~Raises(r)
        /\ IF timeout.k = "none"
           THEN /\ macros' = EventClear(macros, f)
                /\ IF macros[f.m].new_event_arrived /\ event_filter(macros, f.m, f.ev)
                   THEN Go(r, At2(f, "cmp"))
                   ELSE Block(r, At2(f, "sw"), "event")
           ELSE /\ macros' = macros
                /\ IF timeout.n <= 0
                   THEN Sleep(r, [f EXCEPT !.pc = "wf", !.w = "new", !.tmo = TRUE])
                   ELSE Block(r, [f EXCEPT !.pc = "wf", !.w = "new"], "wait_for")
        /\ heard' = [heard EXCEPT ![r] = ""]
        /\ UNCHANGED <<static, edge, aborted, notified, macro_variables, log, fails>>

\* Macro._wait_for_event awaited by the task itself, woken by notify
IfSingleWoken(r) ==
    /\ At(r, "if_single", "sw")
    /\ macros' = [macros EXCEPT ![Top(r).m].new_event_arrived = FALSE]
    /\ IF event_filter(macros, Top(r).m, Top(r).ev)
       THEN Go(r, At2(Top(r), "cmp"))
       ELSE Block(r, Top(r), "event")
    /\ UNCHANGED <<static, hist, macro_variables, log, fails>>

\* wait_for returned or raised TimeoutError (lines 648, 662-666)
IfSingleReturns(r) ==
    /\ At(r, "if_single", "wf")
    /\ Swallowed(r)
    /\ IF Top(r).w = "done" THEN Go(r, At2(Top(r), "cmp")) ELSE Branch(r, Cur(r).d)
    /\ heard' = IF Top(r).w = "done" THEN heard ELSE [heard EXCEPT ![r] = ""]
    /\ UNCHANGED <<static, edge, aborted, notified, macros, macro_variables, log, fails>>

\* lines 652-666
IfSingleCompare(r) ==
    /\ At(r, "if_single", "cmp")
    /\ IF macros[Top(r).m].newest_event = Top(r).ev
       THEN Branch(r, Cur(r).c)
       ELSE Branch(r, Cur(r).d)
    /\ heard' = [heard EXCEPT ![r] = ""]
    /\ UNCHANGED <<static, edge, aborted, notified, macros, macro_variables, log, fails>>

\* ------------------------------------------------------------------------
\* The injector: trigger edges, notifications, cancellation
\* ------------------------------------------------------------------------
\* lines 304-305
Pressed(macro) == [macro EXCEPT !.trigger_release = FALSE, !.trigger_press = TRUE]

\* Variant for C4: release_trigger without line 313.
ReleasedKeepsPress(macro) == [macro EXCEPT !.trigger_release = TRUE]

\* Variant for C16: release_trigger inverts both signals.
ReleasedToggles(macro) ==
    [macro EXCEPT !.trigger_release = ~macro.trigger_release,
                  !.trigger_press = ~macro.trigger_press]

\* lines 312-313
Released(macro) == [macro EXCEPT !.trigger_release = TRUE, !.trigger_press = FALSE]

\* Variant for C15: press_trigger of a macro that is holding releases it.
PressTriggerToggles(ms, m) ==
    IF is_holding(ms, m) THEN [ms EXCEPT ![m] = Released(@)]
    ELSE [ms EXCEPT ![m] = Pressed(@)]

\* Variant for C5: press_trigger without the loop of lines 307-308.
PressNoChildren(ms, m, k) == ms

RECURSIVE press_trigger(_, _)
RECURSIVE PressChildren(_, _, _)
\* Macro.press_trigger
press_trigger(ms, m) ==
    IF is_holding(ms, m) THEN ms
    ELSE PressChildren([ms EXCEPT ![m] = Pressed(@)], m, 1)

PressChildren(ms, m, k) ==
    IF k > Len(ms[m].child_macros) THEN ms
    ELSE PressChildren(press_trigger(ms, ms[m].child_macros[k]), m, k + 1)

RECURSIVE release_trigger(_, _)
RECURSIVE ReleaseChildren(_, _, _)
\* Macro.release_trigger
release_trigger(ms, m) ==
    ReleaseChildren([ms EXCEPT ![m] = Released(@)], m, 1)

ReleaseChildren(ms, m, k) ==
    IF k > Len(ms[m].child_macros) THEN ms
    ELSE ReleaseChildren(release_trigger(ms, ms[m].child_macros[k]), m, k + 1)

\* Variant for C28: notify without the loop of lines 219-220.
NotifyNoChildren(ms, m, event, action, k) == ms

RECURSIVE notify(_, _, _, _)
RECURSIVE NotifyChildren(_, _, _, _, _)
\* Macro.notify
notify(ms, m, event, action) ==
    [NotifyChildren(ms, m, event, action, 1) EXCEPT
        ![m].newest_event = event,
        ![m].newest_action = IntV(action),
        ![m].new_event_arrived = TRUE]

NotifyChildren(ms, m, event, action, k) ==
    IF k > Len(ms[m].child_macros) THEN ms
    ELSE NotifyChildren(notify(ms, ms[m].child_macros[k], event, action),
                        m, event, action, k + 1)

\* asyncio.Event.set(): the futures of the tasks that wait on the event are
\* resolved, which schedules those tasks.
Woken(rn, old, new) ==
    IF rn.st # "waiting" THEN rn
    ELSE LET f == rn.stack[Len(rn.stack)]
             released == ~old[f.m].trigger_release /\ new[f.m].trigger_release
             pressed == ~old[f.m].trigger_press /\ new[f.m].trigger_press
             arrived == ~old[f.m].new_event_arrived /\ new[f.m].new_event_arrived
             inner(w) == Runner("waiting",
                                [rn.stack EXCEPT ![Len(rn.stack)].w = w], rn.on)
         IN  CASE rn.on = "release" /\ released -> Runner("ready", rn.stack, "")
               [] rn.on = "event" /\ arrived -> Runner("ready", rn.stack, "")
               [] rn.on = "wait_for" /\ f.w = "release" /\ released ->
                      inner("release_woken")
               [] rn.on = "wait_for" /\ f.w = "press" /\ pressed ->
                      inner("press_woken")
               [] rn.on = "wait_for" /\ f.w = "event" /\ arrived ->
                      inner("event_woken")
               [] OTHER -> rn

Deliver(new) ==
    /\ macros' = new
    /\ runners' = [r \in Runners |-> Woken(runners[r], macros, new)]
    /\ UNCHANGED <<static, aborted, macro_variables, log, fails>>

\* The task rn is in add_if_tap.task and the timer of its wait_for has not fired.
InIfTap(rn) ==
    /\ rn.st = "waiting"
    /\ rn.stack # <<>>
    /\ LET f == rn.stack[Len(rn.stack)]
       IN  /\ f.pc = "wf" /\ ~f.tmo
           /\ macros[f.m].tasks[f.i].op = "if_tap"

\* The task rn is in add_hold.task, in the wait for the release of the trigger.
InHoldKey(rn) ==
    /\ rn.st \in {"waiting", "cancelled"}
    /\ rn.stack # <<>>
    /\ LET f == rn.stack[Len(rn.stack)]
       IN  /\ f.pc = "h1"
           /\ macros[f.m].tasks[f.i].op = "hold_key"

HearRelease(rn, h, e) ==
    IF InHoldKey(rn) /\ e = "release" /\ h = "h" THEN "hr" ELSE h

HearEdge(rn, h, e) ==
    IF InHoldKey(rn) THEN HearRelease(rn, h, e)
    ELSE IF ~InIfTap(rn) THEN h
    ELSE IF e = "release" /\ h = "h" THEN "hr"
    ELSE IF e = "press" /\ h = "u" THEN "up"
    ELSE IF e = "release" /\ h = "up" THEN "upr"
    ELSE h

PressTrigger ==
    /\ phase = "run"
    /\ Idle
    /\ Deliver(press_trigger(macros, 1))
    /\ edge' = IF is_holding(macros, 1) THEN edge ELSE "press"
    /\ heard' = [r \in Runners |-> HearEdge(runners[r], heard[r], "press")]
    /\ notified' = notified

ReleaseTrigger ==
    /\ phase = "run"
    /\ Idle
    /\ Deliver(release_trigger(macros, 1))
    /\ edge' = "release"
    /\ heard' = [r \in Runners |-> HearEdge(runners[r], heard[r], "release")]
    /\ notified' = notified

\* The events the injector reports: the key that triggers the macro, another key.
Events == {Event(EV_KEY, KEY_A), Event(EV_KEY, KEY_B)}
Actions == {PRESS, RELEASE}

\* The task rn is in add_if_single.task, before the comparison of line 655.
InIfSingle(rn) ==
    /\ rn.st \in {"ready", "waiting"}
    /\ rn.stack # <<>>
    /\ LET f == rn.stack[Len(rn.stack)]
       IN  /\ f.pc \in {"sw", "wf"}
           /\ macros[f.m].tasks[f.i].op = "if_single"

Hear(rn, h, event, action) ==
    IF h # "" \/ ~InIfSingle(rn) THEN h
    ELSE IF /\ event # rn.stack[Len(rn.stack)].ev
            /\ action \in {PRESS, PRESS_NEGATIVE} THEN "other"
    ELSE IF event = rn.stack[Len(rn.stack)].ev /\ action = RELEASE THEN "own"
    ELSE IF event = rn.stack[Len(rn.stack)].ev THEN "ownp"
    ELSE h

\* Macro.notify on the outermost macro, as the injector calls it.  Only notify
\* sets new_event_arrived: a macro that holds it afterwards was reached.
Notify(event, action) ==
    /\ phase = "run"
    /\ Idle
    /\ Deliver(notify(macros, 1, event, action))
    /\ edge' = edge
    /\ heard' = [r \in Runners |-> Hear(runners[r], heard[r], event, action)]
    /\ notified' = [m \in MacroIds |-> notified[m] \/ macros'[m].new_event_arrived]

\* The frames that CancelledError passes through: the inner task and the timer
\* of a wait_for are cancelled with the task, the locals of the wait are gone.
Unwound(stack) ==
    [k \in DOMAIN stack |-> [stack[k] EXCEPT !.ev = NoEvent, !.w = "", !.tmo = FALSE]]

\* CancelledError leaves every Macro.run on the stack of the task without
\* running any statement (it is not an Exception, line 291).
Cancelled(r) ==
    /\ runners' = [runners EXCEPT ![r] = Runner("cancelled", Unwound(runners[r].stack), "")]
    /\ heard' = [heard EXCEPT ![r] = ""]
    /\ UNCHANGED <<static, edge, aborted, notified, macros, macro_variables, log, fails>>

\* task.cancel() requests the cancellation: the CancelledError is thrown into
\* the task at its next step.  In asyncio.sleep and Event.wait nothing catches
\* it and nothing else of the task runs before: the task is as good as
\* cancelled.  asyncio.wait_for catches it and returns when the inner task is
\* done by then: it is when it is done now, it may be when its step is
\* scheduled now (that step runs before the step of the task), and it is not
\* when it is suspended now (what wakes it comes after the step of the task).
Cancel(r) ==
    /\ phase = "run"
    /\ runners[r].st \in {"ready", "waiting"}
    /\ runners[r].on # "cancelling"
    /\ Idle
    /\ IF runners[r].on = "wait_for" /\ (InnerPending(Top(r)) \/ Top(r).w = "done")
       THEN /\ runners' = [runners EXCEPT ![r] =
                   Runner(IF InnerPending(Top(r)) THEN "waiting" ELSE "ready",
                          runners[r].stack, "cancelling")]
            /\ UNCHANGED <<static, hist, macros, macro_variables, log, fails>>
       ELSE Cancelled(r)

\* asyncio.wait_for: the CancelledError is delivered and the inner task is
\* not done; the inner task is cancelled and the error is raised again.
WaitForCancelled(r) ==
    /\ Scheduled(r)
    /\ runners[r].on = "cancelling"
    /\ Top(r).w # "done"
    /\ HasLoop(r)
    /\ Cancelled(r)

TaskStep(r) ==
    \/ RunRejected(r) \/ RunAccepted(r) \/ RunFinished(r)
    \/ HandlerFails(r) \/ TaskRaises(r) \/ TaskEnd(r)
    \/ KeyDown(r) \/ KeyUp(r)
    \/ Hold(r) \/ HoldKeyDown(r) \/ HoldKeyUp(r) \/ HoldMacro(r)
    \/ ModifyStart(r) \/ ModifyDown(r) \/ ModifyChild(r) \/ ModifyPause(r) \/ ModifyUp(r)
    \/ RepeatStart(r) \/ RepeatLoop(r)
    \/ EventEmit(r) \/ Pause(r) \/ Wait(r) \/ Set(r)
    \/ MouseStart(r) \/ MouseLoop(r)
    \/ WheelStart(r) \/ WheelLoop(r) \/ WheelSleep(r)
    \/ IfEqLegacy(r) \/ IfEq(r)
    \/ IfTapStart(r) \/ IfTapReturns(r) \/ InnerStep(r) \/ TimeoutFires(r)
    \/ WaitForCancelled(r)
    \/ IfSingleStart(r) \/ IfSingleWoken(r) \/ IfSingleReturns(r) \/ IfSingleCompare(r)

Next ==
    \/ Build
    \/ FinishBuild
    \/ PressTrigger
    \/ ReleaseTrigger
    \/ \E event \in Events, action \in Actions : Notify(event, action)
    \/ \E r \in Runners : Start(r) \/ Cancel(r) \/ TaskStep(r)

Spec == Init /\ [][Next]_vars

\* The event loop runs every scheduled callback and fires every timer: a task
\* that is ready again and again gets its step.  Nothing obliges the injector
\* to press, release, notify, start or cancel.
FairSpec == Spec /\ \A r \in Runners : SF_vars(TaskStep(r))

\* ------------------------------------------------------------------------
\* Vocabulary of the properties
\* ------------------------------------------------------------------------
\* The tasks whose closure presses a key and is to release it.
PressOps == {"key", "hold_key", "modify"}

KeyCodes == {KEY_A, KEY_B, KEY_LEFTSHIFT}

\* How many times the handler wrote (EV_KEY, code, value) for a task of one
\* of the kinds `ops` that runs in the asyncio task r.
KeyWrites(r, code, value, ops) ==
    Cardinality({k \in DOMAIN log :
        /\ log[k].type = EV_KEY /\ log[k].code = code /\ log[k].value = value
        /\ log[k].run = r /\ log[k].by \in ops})

AllOps == {"key", "hold_key", "modify", "event", "mouse", "wheel"}

\* The frame at depth k of r is inside a task that has written its key-down
\* and not yet its key-up.
Pressing(r, k) ==
    LET f == runners[r].stack[k]
    IN  /\ f.pc # "enter"
        /\ f.i <= Len(macros[f.m].tasks)
        /\ \/ macros[f.m].tasks[f.i].op = "key" /\ f.pc = "k1"
           \/ macros[f.m].tasks[f.i].op = "hold_key" /\ f.pc = "h1"
           \/ macros[f.m].tasks[f.i].op = "modify" /\ f.pc \in {"m2", "m3", "m4"}

PressedCode(r, k) ==
    LET f == runners[r].stack[k]
    IN  IF macros[f.m].tasks[f.i].op = "hold_key" THEN f.n
        ELSE macros[f.m].tasks[f.i].a.n

PressingCount(r, code) ==
    Cardinality({k \in DOMAIN runners[r].stack :
                    Pressing(r, k) /\ PressedCode(r, k) = code})

Live(r) == runners[r].st \in {"ready", "running", "waiting"}

NoCancel == \A r \in Runners : runners[r].st # "cancelled"

\* No invocation of run is in progress.
Quiet == \A r \in Runners : ~Live(r)

RECURSIVE Descendants(_, _)
Descendants(ms, m) ==
    UNION {{ms[m].child_macros[k]} \cup Descendants(ms, ms[m].child_macros[k]) :
               k \in DOMAIN ms[m].child_macros}

\* The task r makes a move in this step and is not being cancelled.
Moves(r) ==
    /\ runners'[r] # runners[r]
    /\ runners'[r].st # "cancelled"
    /\ runners'[r].on = "cancelling" => runners[r].on = "cancelling"

Popped(r) ==
    /\ runners'[r].stack = SubSeq(runners[r].stack, 1, Len(runners[r].stack) - 1)
    /\ runners'[r].st = IF Len(runners[r].stack) = 1 THEN "done" ELSE "running"

\* ------------------------------------------------------------------------
\* C1: a task that wrote a key-down and is cancelled at one of its suspension
\* points (k, h(symbol), m) still writes the key-up before it unwinds: no
\* frame of a cancelled asyncio task is left between its key-down and key-up.
\* ------------------------------------------------------------------------
C1_KeyUpOnCancel ==
    \A r \in Runners :
        runners[r].st = "cancelled" =>
            \A k \in DOMAIN runners[r].stack : ~Pressing(r, k)

\* ------------------------------------------------------------------------
\* C2: Macro.run sets running back to false on every exit path (completion,
\* exception, cancellation): when no invocation of run is in progress, no
\* macro is running.
\* ------------------------------------------------------------------------
C2_RunningCleared ==
    Quiet => \A m \in MacroIds : ~macros[m].running

\* ------------------------------------------------------------------------
\* C3: at most one invocation of run executes tasks of a macro at any time,
\* and a run that begins while running is true returns without an exception,
\* calls no handler, executes no task and leaves running, the tasks and the
\* new_event_arrived signal (the whole macro store) unchanged.
\* ------------------------------------------------------------------------
Executing(r, m) ==
    /\ Live(r)
    /\ \E k \in DOMAIN runners[r].stack :
           runners[r].stack[k].m = m /\ runners[r].stack[k].pc # "enter"

C3_OneAtATime ==
    \A m \in MacroIds : Cardinality({r \in Runners : Executing(r, m)}) <= 1

C3_RejectedStep ==
    \A r \in Runners :
        (/\ Moves(r)
         /\ runners[r].stack # <<>>
         /\ Top(r).pc = "enter"
         /\ macros[Top(r).m].running)
        => /\ Popped(r)
           /\ macros' = macros
           /\ log' = log
           /\ fails' = fails
           /\ macro_variables' = macro_variables

C3_SingleRun == []C3_OneAtATime /\ [][C3_RejectedStep]_vars

\* A run was rejected: task 2 is done without having written anything while
\* task 1, which runs k(KEY_A).k(KEY_B), is between its writes.
C3_Witness ==
    /\ runners[2].st = "done"
    /\ runners[1].st = "ready"
    /\ fails = 0
    /\ Len(log) = 1
    /\ log[1].run = 1
    /\ macros[1].running
    /\ Len(macros[1].tasks) = 2
    /\ macros[1].tasks[2].op = "key"

\* ------------------------------------------------------------------------
\* C4: in every reachable state of every macro exactly one of the two trigger
\* signals is set.
\* ------------------------------------------------------------------------
C4_Complementary ==
    \A m \in MacroIds : macros[m].trigger_press # macros[m].trigger_release

\* A tree with a child was pressed, released and pressed again.
C4_Witness ==
    /\ macros[1].child_macros # <<>>
    /\ macros[1].trigger_press
    /\ \A m \in Descendants(macros, 1) : macros[m].trigger_press
    /\ \E r \in Runners : runners[r].st = "waiting" /\ Len(log) >= 2

\* ------------------------------------------------------------------------
\* C5: is_holding() of the root is true exactly when the last trigger
\* transition that took effect was a press, and is_holding() of every
\* descendant equals that of the root.
\* ------------------------------------------------------------------------
C5_Holding ==
    /\ is_holding(macros, 1) <=> edge = "press"
    /\ \A m \in Descendants(macros, 1) :
           is_holding(macros, m) <=> is_holding(macros, 1)

C5_Witness ==
    /\ Descendants(macros, 1) # {}
    /\ edge = "press"
    /\ \A m \in Descendants(macros, 1) : is_holding(macros, m)
    /\ log # <<>>

\* ------------------------------------------------------------------------
\* C6 as stated: in a run that is not cancelled and whose handler never
\* raises, every task that wrote (EV_KEY, c, 1) wrote (EV_KEY, c, 0) before
\* it returned; the key-downs and key-ups of every code are as many, apart
\* from those of the tasks that are between the two.
\* ------------------------------------------------------------------------
C6_Original ==
    (NoCancel /\ fails = 0) =>
        \A r \in Runners : \A c \in KeyCodes :
            KeyWrites(r, c, 1, AllOps) - KeyWrites(r, c, 0, AllOps)
                = PressingCount(r, c)

\* C6 amended: the same of the tasks of k, h(symbol) and m; the raw event
\* task of e(EV_KEY, c, 1) writes a key-down that no task releases.
C6_KeyUpFollows ==
    (NoCancel /\ fails = 0) =>
        \A r \in Runners : \A c \in KeyCodes :
            KeyWrites(r, c, 1, PressOps) - KeyWrites(r, c, 0, PressOps)
                = PressingCount(r, c)

\* A run of h(KEY_A).k(KEY_B) has returned with both keys pressed and released.
C6_Witness ==
    /\ NoCancel /\ fails = 0
    /\ runners[1].st = "done"
    /\ KeyWrites(1, KEY_A, 1, {"hold_key"}) = 1
    /\ KeyWrites(1, KEY_A, 0, {"hold_key"}) = 1
    /\ KeyWrites(1, KEY_B, 0, {"key"}) = 1

\* ------------------------------------------------------------------------
\* C7: the capabilities of the macro as merged when building finished hold
\* every (type, code) that a run passes to the handler.
\* ------------------------------------------------------------------------
C7_Declared ==
    \A k \in DOMAIN log : <<IntV(log[k].type), IntV(log[k].code)>> \in declared

\* ------------------------------------------------------------------------
\* C8: no task executed by run changes the capabilities of a macro of the
\* tree: get_capabilities returns after any number of runs what it returned
\* before the first.
\* ------------------------------------------------------------------------
C8_Frozen ==
    phase = "run" => get_capabilities(macros, 1) = declared

\* ------------------------------------------------------------------------
\* C9: within one run the tasks execute in list order, each starting only
\* after the one before it has returned; when task i raises an exception, no
\* later task of that run is executed, the exception does not leave run, and
\* running is false afterwards.
\* ------------------------------------------------------------------------
\* The invocation at depth k of r goes on in this step.
C9_InOrder ==
    \A r \in Runners : \A k \in DOMAIN runners[r].stack :
        (/\ k \in DOMAIN runners'[r].stack
         /\ runners[r].stack[k].pc # "enter"
         /\ runners'[r].stack[k] # runners[r].stack[k])
        => /\ runners'[r].stack[k].m = runners[r].stack[k].m
           /\ \/ runners'[r].stack[k].i = runners[r].stack[k].i
              \/ /\ runners'[r].stack[k].i = runners[r].stack[k].i + 1
                 /\ runners'[r].stack[k].pc = "start"
                 /\ k = Len(runners[r].stack)
                 /\ k = Len(runners'[r].stack)

\* The task at the top of r raises in this step.
C9_Raising(r) ==
    /\ Moves(r)
    /\ HasLoop(r)
    /\ InTask(r)
    /\ Raises(r) \/ fails' # fails

C9_Stops ==
    \A r \in Runners :
        C9_Raising(r) => Popped(r) /\ ~macros'[Top(r).m].running

C9_StepOrder == [][C9_InOrder /\ C9_Stops]_vars

\* r($n, k(KEY_A)).k(KEY_B) with n unset: the first task raised, run has
\* returned, k(KEY_B) was not executed.
C9_Witness ==
    /\ runners[1].st = "done"
    /\ runners[2].st = "idle"
    /\ aborted[1] = 1
    /\ log = <<>>
    /\ ~macros[1].running
    /\ Len(macros[1].tasks) = 2

\* ------------------------------------------------------------------------
\* C10 as stated: when a $variable resolves to a value of the wrong kind, the
\* whole run terminates: the asyncio task writes nothing afterwards, whether
\* the failing task belongs to the outermost macro or to a child macro.
\* ------------------------------------------------------------------------
C10_Original ==
    [][\A r \in Runners :
          (aborted[r] > 0 /\ Len(log') > Len(log)) => log'[Len(log')].run # r]_vars

\* C10 amended: the invocation of run that owns the failing task terminates:
\* its later tasks are not executed and running is cleared; when it is the
\* outermost one the asyncio task is over, when it is a child's the parent
\* task that awaits it goes on.
C10_OwnRunStops ==
    \A r \in Runners :
        aborted'[r] # aborted[r] =>
            /\ Popped(r)
            /\ ~macros'[Top(r).m].running
            /\ log' = log
            /\ aborted'[r] = Len(runners[r].stack)

C10_OutermostOver ==
    \A r \in Runners : aborted[r] = 1 => runners[r].st = "done"

C10_RunStops == []C10_OutermostOver /\ [][C10_OwnRunStops]_vars

\* m(KEY_LEFTSHIFT, r($n, k(KEY_B))).k(KEY_A) with n unset: the child's run
\* failed and the parent wrote the modifier's key-up afterwards.
C10_Witness ==
    \E r \in Runners :
        /\ aborted[r] = 2
        /\ KeyWrites(r, KEY_LEFTSHIFT, 0, {"modify"}) = 1

\* ------------------------------------------------------------------------
\* C11: set(x, v) followed at once by if_eq($x, v, then, else) runs then and
\* never else, whether v is a literal or a $variable.
\* ------------------------------------------------------------------------
\* The task r is about to execute is if_eq($x, v, ...) and the task before it
\* in the same macro is set(x, v).
C11_AfterSet(r) ==
    /\ InTask(r)
    /\ Cur(r).op = "if_eq" /\ Top(r).pc = "start"
    /\ Top(r).i > 1
    /\ macros[Top(r).m].tasks[Top(r).i - 1].op = "set"
    /\ Cur(r).a = VarV(macros[Top(r).m].tasks[Top(r).i - 1].a.s)
    /\ Cur(r).b = macros[Top(r).m].tasks[Top(r).i - 1].b

C11_TakesThen ==
    \A r \in Runners :
        (HasLoop(r) /\ C11_AfterSet(r) /\ Moves(r) /\ Cur(r).c.k = "macro")
        => /\ Len(runners'[r].stack) = Len(runners[r].stack) + 1
           /\ runners'[r].stack[Len(runners'[r].stack)].m = Cur(r).c.n

C11_SetThenIfEq == [][C11_TakesThen]_vars

\* ------------------------------------------------------------------------
\* C20: after set(name, value) has executed, the store maps name to the
\* resolved value: for set(a, $b) to the value b had, not to a reference to b.
\* ------------------------------------------------------------------------
C20_StoresValue ==
    \A r \in Runners :
        (HasLoop(r) /\ InTask(r) /\ Cur(r).op = "set" /\ Moves(r))
        => macro_variables'[Cur(r).a.s] = resolve(macro_variables, Cur(r).b, <<>>)

C20_SetResolved == [][C20_StoresValue]_vars

\* ------------------------------------------------------------------------
\* C12: r(n, child) runs child exactly n times, n being read once when the
\* task starts: the count of the iterations still to run is set from n at the
\* start, every iteration runs child once and takes one off the count, nothing
\* else changes the count (not a set(n, ...) of the child), and the task
\* returns when the count is used up (at once for n = 0); each of these runs of
\* child is accepted.
\* ------------------------------------------------------------------------
C12_InLoop(r, k) ==
    LET f == runners[r].stack[k]
    IN  /\ f.pc = "loop"
        /\ f.i <= Len(macros[f.m].tasks)
        /\ macros[f.m].tasks[f.i].op = "repeat"

C12_ReadOnce ==
    \A r \in Runners :
        (/\ HasLoop(r) /\ InTask(r) /\ Moves(r)
         /\ Cur(r).op = "repeat" /\ Top(r).pc = "start"
         /\ ~Raises(r))
        => /\ Len(runners'[r].stack) = Len(runners[r].stack)
           /\ runners'[r].stack[Len(runners[r].stack)] =
                  [Top(r) EXCEPT !.pc = "loop",
                                 !.n = resolve(macro_variables, Cur(r).a, <<"int">>).n]

C12_Counter ==
    \A r \in Runners : \A k \in DOMAIN runners[r].stack :
        C12_InLoop(r, k) =>
            LET f == runners[r].stack[k]
                g == runners'[r].stack[k]
            IN  /\ k \in DOMAIN runners'[r].stack
                /\ \/ g = f
                   \/ /\ k = Len(runners[r].stack)
                      /\ f.n > 0
                      /\ g = [f EXCEPT !.n = f.n - 1]
                      /\ Len(runners'[r].stack) = k + 1
                      /\ runners'[r].stack[k + 1] = Frame(macros[f.m].tasks[f.i].b.n)
                   \/ /\ k = Len(runners[r].stack)
                      /\ f.n <= 0
                      /\ Len(runners'[r].stack) = k
                      /\ g = NextOf(f)

C12_ChildAccepted ==
    NoCancel =>
        \A r \in Runners : \A k \in DOMAIN runners[r].stack :
            (k > 1 /\ runners[r].stack[k].pc = "enter" /\ C12_InLoop(r, k - 1))
            => ~macros[runners[r].stack[k].m].running

C12_Repeat == []C12_ChildAccepted /\ [][C12_ReadOnce /\ C12_Counter]_vars

\* r(0, k(KEY_B)).set(n, 2).r($n, set(n, 0).k(KEY_A)) has run: KEY_B was never
\* written, KEY_A twice, and the child has left 0 in n.
C12_Witness ==
    /\ runners[1].st = "done"
    /\ NoCancel /\ fails = 0
    /\ Len(macros[1].tasks) = 3
    /\ macros[1].tasks[1].op = "repeat" /\ macros[1].tasks[1].a = IntV(0)
    /\ macros[1].tasks[3].op = "repeat" /\ macros[1].tasks[3].a = VarV("n")
    /\ macro_variables["n"] = IntV(0)
    /\ KeyWrites(1, KEY_A, 1, {"key"}) = 2
    /\ KeyWrites(1, KEY_A, 0, {"key"}) = 2
    /\ KeyWrites(1, KEY_B, 1, {"key"}) = 0

\* ------------------------------------------------------------------------
\* C13: when the press of another key is notified after if_single started and
\* before the release of the trigger key is notified, the task does not run
\* then, however the notifications interleave with the wake-up of the task.
\* ------------------------------------------------------------------------
\* The task r enters the macro `child` in this step.
Enters(r, child) ==
    /\ child.k = "macro"
    /\ Len(runners'[r].stack) = Len(runners[r].stack) + 1
    /\ runners'[r].stack[Len(runners'[r].stack)].m = child.n

C13_NotThen ==
    \A r \in Runners :
        (/\ HasLoop(r) /\ InTask(r) /\ Moves(r)
         /\ Cur(r).op = "if_single"
         /\ heard[r] = "other")
        => ~Enters(r, Cur(r).c)

C13_OtherPressFirst == [][C13_NotThen]_vars

\* ------------------------------------------------------------------------
\* C14: if_tap(then, else, T) entered while the trigger is held: when
\* release_trigger is called before the T milliseconds are over the task runs
\* then and not else; when it is not, the task runs else and not then, also
\* when the release comes later.
\* ------------------------------------------------------------------------
C14_Branches(r) ==
    /\ HasLoop(r) /\ InTask(r) /\ Moves(r)
    /\ Cur(r).op = "if_tap" /\ Top(r).pc = "wf"
    /\ Cur(r).c.k = "macro" /\ Cur(r).d.k = "macro"

C14_InTime ==
    \A r \in Runners :
        (C14_Branches(r) /\ heard[r] = "hr") => Enters(r, Cur(r).c)

C14_Late ==
    \A r \in Runners :
        (C14_Branches(r) /\ heard[r] = "h") => Enters(r, Cur(r).d)

C14_TapDeadline == [][C14_InTime /\ C14_Late]_vars

\* ------------------------------------------------------------------------
\* C15: press_trigger on a macro that is holding changes neither trigger
\* signal of the macro nor of a descendant (it changes nothing of any macro),
\* and is_holding() stays true for all of them.
\* ------------------------------------------------------------------------
C15_RedundantPress ==
    \A m \in MacroIds :
        is_holding(macros, m) =>
            /\ press_trigger(macros, m) = macros
            /\ \A d \in {m} \cup Descendants(macros, m) :
                   is_holding(press_trigger(macros, m), d)

\* The tree m(KEY_LEFTSHIFT, k(KEY_A)).k(KEY_B) is held while a task of it is
\* under way: a further press finds every macro holding.
C15_Witness ==
    /\ Descendants(macros, 1) # {}
    /\ \A d \in {1} \cup Descendants(macros, 1) : is_holding(macros, d)
    /\ press_trigger(macros, 1) = macros
    /\ \E r \in Runners : Live(r) /\ log # <<>>

\* ------------------------------------------------------------------------
\* C16: release_trigger is idempotent: called twice in a row it leaves every
\* macro as one call does.
\* ------------------------------------------------------------------------
C16_ReleaseTwice ==
    \A m \in MacroIds :
        release_trigger(release_trigger(macros, m), m) = release_trigger(macros, m)

\* A held tree that a release changes, descendants included.
C16_Witness ==
    /\ Descendants(macros, 1) # {}
    /\ \A d \in {1} \cup Descendants(macros, 1) :
           /\ is_holding(macros, d)
           /\ ~is_holding(release_trigger(macros, 1), d)
    /\ release_trigger(release_trigger(macros, 1), 1) = release_trigger(macros, 1)

\* ------------------------------------------------------------------------
\* C17: a mouse or wheel task calls the handler only while the trigger is
\* held: it writes nothing when the trigger is released as it starts, and once
\* the trigger is released its next look at the trigger ends the task without
\* a further write.
\* ------------------------------------------------------------------------
C17_OnlyHeld ==
    \A r \in Runners :
        (/\ Len(log') > Len(log)
         /\ log'[Len(log')].run = r
         /\ log'[Len(log')].by \in {"mouse", "wheel"})
        => is_holding(macros, Top(r).m)

C17_Finishes ==
    \A r \in Runners :
        (/\ HasLoop(r) /\ InTask(r) /\ Moves(r)
         /\ Cur(r).op \in {"mouse", "wheel"}
         /\ Top(r).pc \in {"start", "loop"}
         /\ ~Raises(r)
         /\ ~is_holding(macros, Top(r).m))
        => /\ log' = log
           /\ \/ Top(r).pc = "start"
                 /\ runners'[r].stack[Len(runners'[r].stack)].pc = "loop"
              \/ Top(r).pc = "loop"
                 /\ runners'[r].stack = ReplTop(r, NextOf(Top(r)))

C17_WhileHeld == [][C17_OnlyHeld /\ C17_Finishes]_vars

\* w(10).mouse(up, 2) has moved the pointer while the trigger was held and
\* has returned after the release.
C17_Witness ==
    /\ runners[1].st = "done"
    /\ NoCancel /\ fails = 0
    /\ ~is_holding(macros, 1)
    /\ log # <<>>
    /\ \A k \in DOMAIN log :
           log[k] = [type |-> EV_REL, code |-> REL_Y, value |-> -2,
                     by |-> "mouse", run |-> 1]

\* ------------------------------------------------------------------------
\* C18: add_wheel with a literal speed of 0 is rejected by the builder: the
\* call fails at build time and no step is appended to the macro.
\* ------------------------------------------------------------------------
C18_ZeroSpeedCall ==
    /\ phase = "build"
    /\ script # <<>>
    /\ Head(script).f = "add_wheel"
    /\ Head(script).b = IntV(0)

C18_Rejects ==
    (C18_ZeroSpeedCall /\ script' = Tail(script))
        => /\ phase' = "failed"
           /\ macros' = macros

C18_WheelZeroRejected == [][C18_Rejects]_vars

\* ------------------------------------------------------------------------
\* C19: the task of h(symbol) writes exactly two events, (EV_KEY, code, 1) when
\* it starts and then (EV_KEY, code, 0); when it starts while the trigger is
\* held the key-up is not written before release_trigger is called, and once
\* release_trigger has been called the key-up is eventually written and the
\* task returns.  A handler that raises and a full log are set aside.
\* ------------------------------------------------------------------------
C19_InHold(r) ==
    /\ runners[r].stack # <<>>
    /\ InTask(r)
    /\ Cur(r).op = "hold_key"
    /\ Top(r).pc = "h1"

C19_Wrote(r, value) ==
    /\ Len(log') = Len(log) + 1
    /\ log'[Len(log')].run = r
    /\ log'[Len(log')].by = "hold_key"
    /\ log'[Len(log')].value = value

\* the two writes, in their places, and no other
C19_TwoEvents ==
    \A r \in Runners :
        /\ (/\ At(r, "hold_key", "start") /\ Moves(r)
            /\ ~Raises(r) /\ fails' = fails)
           => /\ log' = Append(log,
                   [type |-> EV_KEY,
                    code |-> resolve(macro_variables, Cur(r).a, <<"int">>).n,
                    value |-> 1, by |-> "hold_key", run |-> r])
              /\ Len(runners'[r].stack) = Len(runners[r].stack)
              /\ runners'[r].stack[Len(runners'[r].stack)] =
                     [Top(r) EXCEPT !.pc = "h1", !.n = log'[Len(log')].code]
        /\ (At(r, "hold_key", "h1") /\ Moves(r) /\ fails' = fails)
           => /\ log' = Append(log,
                   [type |-> EV_KEY, code |-> Top(r).n,
                    value |-> 0, by |-> "hold_key", run |-> r])
              /\ runners'[r].stack = ReplTop(r, NextOf(Top(r)))
        /\ C19_Wrote(r, 1) => At(r, "hold_key", "start")
        /\ C19_Wrote(r, 0) => At(r, "hold_key", "h1")
        /\ (\E v \in -MaxNum .. MaxNum : C19_Wrote(r, v)) => (C19_Wrote(r, 0) \/ C19_Wrote(r, 1))

\* entered while held: no key-up before release_trigger
C19_NotBeforeRelease ==
    \A r \in Runners :
        /\ (At(r, "hold_key", "start") /\ Moves(r) /\ C19_Wrote(r, 1)
            /\ is_holding(macros, Top(r).m))
           => heard'[r] = "h" /\ runners'[r].st = "waiting"
        /\ C19_Wrote(r, 0) => heard[r] # "h"

C19_Released(r) == C19_InHold(r) /\ heard[r] # "h"

C19_Returned(r) ==
    /\ ~C19_InHold(r)
    /\ \A c \in KeyCodes :
           KeyWrites(r, c, 1, {"hold_key"}) = KeyWrites(r, c, 0, {"hold_key"})

C19_SetAside == fails > 0 \/ Len(log) = MaxLog

C19_Eventually ==
    \A r \in Runners :
        C19_Released(r) ~> (C19_Returned(r) \/ C19_SetAside)

C19_HoldKey ==
    /\ [][C19_TwoEvents /\ C19_NotBeforeRelease]_vars
    /\ C19_Eventually

\* What holds of the code: the same of the tasks that are not cancelled.
C19_UnlessCancelled ==
    /\ [][C19_TwoEvents /\ C19_NotBeforeRelease]_vars
    /\ \A r \in Runners :
           C19_Released(r) ~>
               (C19_Returned(r) \/ C19_SetAside \/ runners[r].st = "cancelled")

\* h(KEY_A) was entered while the trigger was held, the trigger was released
\* and the task was cancelled before it wrote the key-up.
C19_CancelledHolding ==
    \E r \in Runners :
        /\ runners[r].st = "cancelled"
        /\ C19_InHold(r)
        /\ heard[r] = "hr"

\* ------------------------------------------------------------------------
\* C21: if_single runs then only if a release of the key of the triggering
\* event was notified after the task started to wait and no press of another
\* key was notified before it; an event notified before the task was entered
\* (during a preceding wait) does not by itself make then run.
\* ------------------------------------------------------------------------
C21_TakesThen(r) ==
    /\ HasLoop(r) /\ InTask(r) /\ Moves(r)
    /\ Cur(r).op = "if_single"
    /\ Enters(r, Cur(r).c)

C21_OwnRelease ==
    \A r \in Runners : C21_TakesThen(r) => heard[r] = "own"

C21_ThenOnlyAfterRelease == [][C21_OwnRelease]_vars

\* C21, the part about the events that came before the task was entered: a
\* task of if_single runs then only if an event of the key of the triggering
\* event, or the press of another key, was notified after the task started.
C21_NotStale ==
    [][\A r \in Runners : C21_TakesThen(r) => heard[r] # ""]_vars

\* ------------------------------------------------------------------------
\* C22: in h(child) the trigger is looked at only between complete runs of
\* child: a release_trigger that arrives while child is in the middle of its
\* tasks leaves the invocation of child as it is, child executes its
\* remaining tasks in order and returns after the last one, and the look at
\* the trigger that follows starts no further run of child unless the
\* trigger is held again.
\* ------------------------------------------------------------------------
\* The invocation at depth k of r is a run of the child of h(child).
C22_ChildOfHold(r, k) ==
    /\ k > 1
    /\ k <= Len(runners[r].stack)
    /\ LET p == runners[r].stack[k - 1]
       IN  /\ p.pc # "enter"
           /\ p.i <= Len(macros[p.m].tasks)
           /\ macros[p.m].tasks[p.i].op = "hold_macro"

\* only the task itself changes its invocations; the one of child goes from
\* task to task and is left after the last one (or by an exception)
C22_NotTruncated ==
    \A r \in Runners : \A k \in DOMAIN runners[r].stack :
        C22_ChildOfHold(r, k) =>
            /\ runners'[r].stack # runners[r].stack
                   => HasLoop(r) /\ runners'[r].st # "cancelled"
            /\ (k \in DOMAIN runners'[r].stack
                    /\ runners'[r].stack[k].i # runners[r].stack[k].i)
                   => /\ runners'[r].stack[k].i = runners[r].stack[k].i + 1
                      /\ runners'[r].stack[k - 1] = runners[r].stack[k - 1]
            /\ (Len(runners'[r].stack) = k - 1 /\ runners[r].stack[k].pc # "enter"
                    /\ ~Raises(r) /\ fails' = fails)
                   => /\ k = Len(runners[r].stack)
                      /\ runners[r].stack[k].i > Len(macros[runners[r].stack[k].m].tasks)

\* the look at the trigger, between two runs of child
C22_Between ==
    \A r \in Runners :
        (At(r, "hold_macro", "start") /\ Moves(r))
        => IF is_holding(macros, Top(r).m)
           THEN Enters(r, Cur(r).b)
           ELSE runners'[r].stack = ReplTop(r, NextOf(Top(r)))

C22_HoldChild == [][C22_NotTruncated /\ C22_Between]_vars

\* h(k(KEY_A)): the trigger was released while the only run of k(KEY_A) was
\* under way (h(child) gives up the loop nowhere else); the key was pressed
\* and released once and the task is over.
C22_Witness ==
    /\ runners[1].st = "done"
    /\ NoCancel /\ fails = 0
    /\ Len(macros[1].tasks) = 1
    /\ macros[1].tasks[1].op = "hold_macro"
    /\ ~is_holding(macros, 1)
    /\ Len(log) = 2
    /\ log[1] = [type |-> EV_KEY, code |-> KEY_A, value |-> 1, by |-> "key", run |-> 1]
    /\ log[2] = [type |-> EV_KEY, code |-> KEY_A, value |-> 0, by |-> "key", run |-> 1]

\* ------------------------------------------------------------------------
\* C23: a task of h(child) that is entered while the trigger is held gives up
\* the loop in every iteration, also when child has no task that suspends
\* (only set tasks): the task does not keep the loop for ever, so that
\* release_trigger can be delivered.
\* ------------------------------------------------------------------------
\* an invocation of h(child) is under way in r
C23_InHoldMacro(r) ==
    \E k \in DOMAIN runners[r].stack :
        LET f == runners[r].stack[k]
        IN  /\ f.pc # "enter"
            /\ f.i <= Len(macros[f.m].tasks)
            /\ macros[f.m].tasks[f.i].op = "hold_macro"

C23_GivesUpLoop ==
    \A r \in Runners :
        (C23_InHoldMacro(r) /\ runners[r].st = "running")
            ~> (runners[r].st # "running" \/ Len(log) = MaxLog)

\* h(set(x, 1)) is in its loop: the task holds the event loop.
C23_Spinning ==
    \E r \in Runners :
        /\ runners[r].st = "running"
        /\ C23_InHoldMacro(r)
        /\ \A k \in DOMAIN macros[2].tasks : macros[2].tasks[k].op = "set"
        /\ Len(runners[r].stack) = 2

\* ------------------------------------------------------------------------
\* C24: an execution of an if_tap task runs at most one of its branches:
\* then exactly when the wait completed before the deadline (wait() has
\* returned, and the release that ended it was called before the timer
\* fired), else exactly when the deadline expired first; once a branch was
\* entered the task enters no branch again, also when a task inside the
\* branch fails.
\* ------------------------------------------------------------------------
\* The invocation at depth k of r is in a task of if_tap.
C24_InIfTap(r, k) ==
    LET f == runners[r].stack[k]
    IN  /\ f.pc # "enter"
        /\ f.i <= Len(macros[f.m].tasks)
        /\ macros[f.m].tasks[f.i].op = "if_tap"

\* The wait of the task at the top of r completed before the deadline.
C24_WaitWon(r) == Top(r).w = "done" /\ heard[r] \in {"hr", "upr"}

\* The step of r enters `branch`, or goes on when there is none.
C24_Takes(r, branch) ==
    IF branch.k = "macro"
    THEN /\ Enters(r, branch)
         /\ runners'[r].stack[Len(runners[r].stack)] = EndOf(Top(r))
    ELSE runners'[r].stack = ReplTop(r, NextOf(Top(r)))

\* the choice, when wait_for is over
C24_Chooses ==
    \A r \in Runners :
        (At(r, "if_tap", "wf") /\ Moves(r))
        => /\ C24_WaitWon(r) \/ Top(r).tmo
           /\ C24_Takes(r, IF C24_WaitWon(r) THEN Cur(r).c ELSE Cur(r).d)

\* What holds of the code: the choice follows wait_for, which returns when
\* wait() is done by the time the task wakes, the timer fired or not.
C24_WaitForDecides ==
    \A r \in Runners :
        (At(r, "if_tap", "wf") /\ Moves(r))
        => /\ Top(r).w = "done" \/ Top(r).tmo
           /\ C24_Takes(r, IF Top(r).w = "done" THEN Cur(r).c ELSE Cur(r).d)

\* a branch is entered from nowhere else, and when it is left, however it
\* ended, the task of if_tap is over
C24_Once ==
    \A r \in Runners : \A k \in DOMAIN runners[r].stack :
        (C24_InIfTap(r, k) /\ runners[r].stack[k].pc # "wf")
        => /\ (k < Len(runners[r].stack) /\ k \in DOMAIN runners'[r].stack)
                  => runners'[r].stack[k] = runners[r].stack[k]
           /\ (k = Len(runners[r].stack) /\ runners[r].stack[k].pc = "end"
                   /\ runners'[r].stack # runners[r].stack)
                  => runners'[r].stack = ReplTop(r, NextOf(Top(r)))

C24_OneBranch == [][C24_Chooses /\ C24_Once]_vars

C24_UnlessLate == [][C24_WaitForDecides /\ C24_Once]_vars

\* ------------------------------------------------------------------------
\* C25: when the task of if_tap starts while the trigger is not held, then
\* runs only after press_trigger and then release_trigger were both called
\* after the task started and before the timer fired; after a release alone,
\* or a press that no release followed in time, or nothing, else runs.
\* ------------------------------------------------------------------------
C25_Ends(r) ==
    /\ HasLoop(r) /\ InTask(r) /\ Moves(r)
    /\ Cur(r).op = "if_tap" /\ Top(r).pc = "wf"
    /\ heard[r] \in {"u", "up", "upr"}

C25_ThenAfterTap ==
    \A r \in Runners :
        (C25_Ends(r) /\ Enters(r, Cur(r).c)) => heard[r] = "upr"

C25_ElseOtherwise ==
    \A r \in Runners :
        (C25_Ends(r) /\ heard[r] \in {"u", "up"} /\ Cur(r).d.k = "macro")
            => Enters(r, Cur(r).d)

C25_TapFromReleased == [][C25_ThenAfterTap /\ C25_ElseOtherwise]_vars

\* What holds of the code: then runs only after a press and a release that
\* followed it, the release before or after the timer fired; and else runs
\* when wait() has not returned by the time the task wakes.
C25_ThenAfterPress ==
    \A r \in Runners :
        (C25_Ends(r) /\ Enters(r, Cur(r).c))
            => heard[r] = "upr" \/ (heard[r] = "up" /\ Top(r).tmo)

C25_ElseWithoutReturn ==
    \A r \in Runners :
        (C25_Ends(r) /\ Top(r).w # "done" /\ Cur(r).d.k = "macro")
            => Enters(r, Cur(r).d)

C25_UnlessLate == [][C25_ThenAfterPress /\ C25_ElseWithoutReturn]_vars

\* ------------------------------------------------------------------------
\* C26: a task of if_single with a timeout, when no event of the key of the
\* triggering event and no press of another key was notified since the task
\* started (so none within the timeout), runs else and never then; and an
\* execution of if_single enters at most one of then and else.
\* ------------------------------------------------------------------------
C26_WithTimeout(r) ==
    /\ HasLoop(r) /\ InTask(r) /\ Moves(r)
    /\ Cur(r).op = "if_single"
    /\ Cur(r).a.k # "none"

C26_RunsElse(r) ==
    /\ ~Enters(r, Cur(r).c)
    /\ (Top(r).pc = "wf" /\ Cur(r).d.k = "macro") => Enters(r, Cur(r).d)

C26_NoEventElse ==
    \A r \in Runners :
        (C26_WithTimeout(r) /\ heard[r] = "") => C26_RunsElse(r)

\* A branch is entered from the end of the wait only, and the task is over
\* when the branch returns.
C26_Once ==
    \A r \in Runners :
        (HasLoop(r) /\ InTask(r) /\ Moves(r) /\ Cur(r).op = "if_single")
        => /\ Len(runners'[r].stack) > Len(runners[r].stack)
                  => /\ Top(r).pc \in {"wf", "cmp"}
                     /\ runners'[r].stack[Len(runners[r].stack)] = EndOf(Top(r))
           /\ Top(r).pc = "end" => runners'[r].stack = ReplTop(r, NextOf(Top(r)))

C26_TimeoutElse == [][C26_NoEventElse /\ C26_Once]_vars

\* What holds of the code: the same of the tasks that are the first of their
\* macro, which no notification can precede in the run.
C26_FirstTask ==
    [][/\ C26_Once
       /\ \A r \in Runners :
              (C26_WithTimeout(r) /\ heard[r] = "" /\ Top(r).i = 1)
                  => C26_RunsElse(r)]_vars

\* ------------------------------------------------------------------------
\* C27: the modifier of m(symbol, child) brackets the child: whatever the
\* child writes is written after the modifier's (EV_KEY, code, 1) and before
\* its (EV_KEY, code, 0), and the key-up is written whenever the key-down
\* was, also when a task of the child raises: when the asyncio task is over,
\* no modifier is left pressed.  A handler that raises is set aside.
\* ------------------------------------------------------------------------
\* The invocation at depth k of r is in a task of m(symbol, child).
C27_InModify(r, k) ==
    LET f == runners[r].stack[k]
    IN  /\ f.pc # "enter"
        /\ f.i <= Len(macros[f.m].tasks)
        /\ macros[f.m].tasks[f.i].op = "modify"

\* How many key-downs less key-ups the modifier tasks of r wrote for `code`.
C27_Down(r, code) ==
    KeyWrites(r, code, 1, {"modify"}) - KeyWrites(r, code, 0, {"modify"})

\* the child runs, and writes, between the two
C27_Brackets ==
    \A r \in Runners : \A k \in DOMAIN runners[r].stack :
        (C27_InModify(r, k) /\ k < Len(runners[r].stack))
        => /\ runners[r].stack[k].pc = "m3"
           /\ fails = 0 => C27_Down(r, macros[runners[r].stack[k].m]
                                          .tasks[runners[r].stack[k].i].a.n) >= 1

\* a task of the child that raises ends the child, not the modifier
C27_ChildRaises ==
    \A r \in Runners :
        (/\ C9_Raising(r)
         /\ Len(runners[r].stack) > 1
         /\ C27_InModify(r, Len(runners[r].stack) - 1))
        => /\ Popped(r)
           /\ runners'[r].stack[Len(runners'[r].stack)].pc = "m3"

\* the asyncio task is over: every key-down of a modifier has its key-up
C27_Released ==
    \A r \in Runners :
        (~Live(r) /\ fails = 0) => \A c \in KeyCodes : C27_Down(r, c) = 0

C27_Modifier == []C27_Brackets /\ [][C27_ChildRaises]_vars /\ []C27_Released

\* What holds of the code: the same of the tasks that are not cancelled.
C27_UnlessCancelled ==
    /\ []C27_Brackets
    /\ [][C27_ChildRaises]_vars
    /\ [](\A r \in Runners :
              (runners[r].st \in {"idle", "done"} /\ fails = 0)
                  => \A c \in KeyCodes : C27_Down(r, c) = 0)

\* m(KEY_LEFTSHIFT, r($n, k(KEY_B))).k(KEY_A) with n unset: the child raised
\* between the key-down and the key-up of the modifier, which were written.
C27_ChildFailed ==
    /\ runners[1].st = "done"
    /\ aborted[1] = 2
    /\ KeyWrites(1, KEY_LEFTSHIFT, 1, {"modify"}) = 1
    /\ KeyWrites(1, KEY_LEFTSHIFT, 0, {"modify"}) = 1

\* ------------------------------------------------------------------------
\* C28: after notify(event, action) on the root of a tree every macro of the
\* tree (the root and all descendants) holds that event and action as its
\* newest and has new_event_arrived set; the trigger signals and the running
\* flag of every macro are what they were, and macros outside the tree are
\* untouched. The root is macro 1, the macro the injector calls notify on.
\* ------------------------------------------------------------------------
C28_NotifyTree ==
    \A event \in Events : \A action \in Actions :
        LET new == notify(macros, 1, event, action)
            tree == {1} \cup Descendants(macros, 1)
        IN  /\ \A d \in tree :
                   /\ new[d].newest_event = event
                   /\ new[d].newest_action = IntV(action)
                   /\ new[d].new_event_arrived
            /\ \A q \in MacroIds :
                   /\ new[q].trigger_release = macros[q].trigger_release
                   /\ new[q].trigger_press = macros[q].trigger_press
                   /\ new[q].running = macros[q].running
                   /\ new[q].tasks = macros[q].tasks
                   /\ q \notin tree => new[q] = macros[q]

\* The release of KEY_B has been notified to the tree of an if_single whose
\* run is under way while the trigger is held: every macro holds it.
C28_Witness ==
    /\ Descendants(macros, 1) = {2, 3}
    /\ macros[1].running
    /\ is_holding(macros, 1)
    /\ \A d \in MacroIds :
           /\ macros[d].newest_event = Event(EV_KEY, KEY_B)
           /\ macros[d].newest_action = IntV(RELEASE)
           /\ macros[d].new_event_arrived

\* ------------------------------------------------------------------------
\* C29: a run that is accepted clears new_event_arrived before its first
\* task, and _wait_for_event of a task of that run returns only after a
\* notify that came after the run was accepted: an event notified before the
\* run does not end the wait.
\* ------------------------------------------------------------------------
C29_Clears ==
    \A r \in Runners :
        (/\ Moves(r) /\ runners[r].stack # <<>>
         /\ Top(r).pc = "enter"
         /\ ~macros[Top(r).m].running)
        => /\ ~macros'[Top(r).m].new_event_arrived
           /\ runners'[r].stack = ReplTop(r, NextOf(Top(r)))

\* _wait_for_event of the if_single task at the top of r returns in this
\* step: awaited by the task itself, or as the inner task of wait_for, before
\* or after the timer of wait_for fired.
C29_WaitReturns(r) ==
    /\ runners[r].stack # <<>>
    /\ InTask(r)
    /\ Cur(r).op = "if_single"
    /\ Len(runners'[r].stack) = Len(runners[r].stack)
    /\ LET g == runners'[r].stack[Len(runners[r].stack)]
       IN  \/ Top(r).pc \in {"start", "sw"} /\ g.pc = "cmp"
           \/ Top(r).w # "done" /\ g.pc = "wf" /\ g.w = "done"

C29_AfterNotify ==
    \A r \in Runners : C29_WaitReturns(r) => notified[Top(r).m]

C29_StaleEvents == [][C29_Clears /\ C29_AfterNotify]_vars

\* if_single(None, set(x, 2), 5): the timer of wait_for has fired, and after
\* it _wait_for_event has returned, in the step of the inner task that a
\* notify of this run had scheduled.
C29_Witness ==
    /\ runners[1].st = "ready"
    /\ runners[1].on = "wait_for"
    /\ runners[1].stack # <<>>
    /\ InTask(1)
    /\ Cur(1).op = "if_single"
    /\ Top(1).pc = "wf"
    /\ Top(1).w = "done"
    /\ Top(1).tmo
    /\ notified[Top(1).m]

\* if_single(k(KEY_A), k(KEY_B)): an event was notified before the run; the
\* run was accepted and its task waits, the signal cleared.
C29_StaleSignal ==
    /\ runners[1].st = "waiting"
    /\ runners[1].on = "event"
    /\ macros[1].newest_event # NoEvent
    /\ macros[1].running
    /\ ~macros[1].new_event_arrived
    /\ ~notified[1]

\* ------------------------------------------------------------------------
\* C30: building e(type, code, value) with type EV_REL declares the mouse
\* footprint that mouse and wheel declare: the EV_REL capabilities of the
\* macro then hold REL_X, REL_Y, REL_WHEEL and REL_HWHEEL, whatever the code.
\* ------------------------------------------------------------------------
C30_Footprint ==
    {<<IntV(EV_REL), IntV(c)>> : c \in {REL_X, REL_Y, REL_WHEEL, REL_HWHEEL}}

C30_EventFootprint ==
    \A m \in MacroIds :
        (\E k \in DOMAIN macros[m].tasks :
             /\ macros[m].tasks[k].op = "event"
             /\ macros[m].tasks[k].a = IntV(EV_REL))
        => C30_Footprint \subseteq macros[m].capabilities

\* What holds of the code: the footprint of mouse and wheel.
C30_MouseFootprint ==
    \A m \in MacroIds :
        (\E k \in DOMAIN macros[m].tasks : macros[m].tasks[k].op \in {"mouse", "wheel"})
        => C30_Footprint \subseteq macros[m].capabilities

\* ------------------------------------------------------------------------
\* C31: a builder call that fails with a type, unknown-key, unknown-event or
\* syntax error leaves the macro unchanged: the tasks, the child macros and
\* the capabilities of every macro are what they were before the call.
\* Stated of the call that Build makes, and of every builder applied to the
\* store of a build under way with arguments of every kind.
\* ------------------------------------------------------------------------
C31_Same(new, old) ==
    \A m \in MacroIds :
        /\ new[m].tasks = old[m].tasks
        /\ new[m].child_macros = old[m].child_macros
        /\ new[m].capabilities = old[m].capabilities

C31_Builders ==
    {"add_key", "add_hold", "add_modify", "add_repeat", "add_event", "add_mouse",
     "add_wheel", "add_wait", "add_set", "add_ifeq", "add_if_eq", "add_if_tap",
     "add_if_single"}

\* Arguments: None, ints, a float, known and unknown names, an ill-formed
\* variable name, a macro and a variable.
C31_Args ==
    {NoneV, IntV(1), FloatV(1), StrV("KEY_A"), StrV("KEY_NOPE"), StrV("EV_KEY"),
     StrV("EV_NOPE"), StrV("up"), StrV("1x"), MacV(2), VarV("n")}

C31_Rest == {NoneV, IntV(5), StrV("a"), MacV(3)}

C31_Calls ==
    {Call(f, 1, a, b, c, d) :
        f \in C31_Builders, a \in C31_Args, b \in C31_Args,
        c \in C31_Rest, d \in {NoneV, IntV(5)}}

C31_BuildStep ==
    (phase = "build" /\ phase' = "failed") => C31_Same(macros', macros)

C31_AnyCall ==
    (phase = "build" /\ macros' # macros) =>
        \A call \in C31_Calls :
            ~ApplyCall(macros, call).ok
                => C31_Same(ApplyCall(macros, call).ms, macros)

C31_FailedCallLeaves == [][C31_BuildStep /\ C31_AnyCall]_vars

\* m(KEY_NOPE, k(KEY_B)) after k(KEY_A): the call failed on a macro that holds
\* the task and the capability of k(KEY_A), with its child built.
C31_Witness ==
    /\ phase = "failed"
    /\ Len(macros[1].tasks) = 1
    /\ macros[1].child_macros = <<>>
    /\ macros[1].capabilities = {<<IntV(EV_KEY), IntV(KEY_A)>>}
    /\ macros[3].tasks # <<>>

====
